---------------------------- MODULE Spec2Model ----------------------------
(***************************************************************************)
(* Model of the instanced primitive renderer (src/src/primitives.rs), the  *)
(* text queue (src/src/text.rs) and the headless capture pipeline          *)
(* (src/src/capture.rs) of mpl-wgpu.                                       *)
(*                                                                         *)
(* A single caller thread issues every operation; the GPU device is the    *)
(* only other agent (it completes submitted work and fires the map         *)
(* callback).                                                              *)
(***************************************************************************)
EXTENDS Integers, Sequences, FiniteSets, TLC

(***************************************************************************)
(* Bounds of the model.                                                    *)
(***************************************************************************)
\* Total number of draw_* calls in one behaviour.
MaxDraws == 3
\* Total number of draw_text calls in one behaviour.
MaxTexts == 1
\* Largest width / height of the off-screen target whose staging buffer
\* contents are represented (pixels).
MaxDim == 2
\* Widths 0..MaxSmallWidth are among those new() is tried with.
MaxSmallWidth == 70
\* Stand-in for `initial_capacity = 1024` (primitives.rs:143), scaled down
\* so that a batch can outgrow the initial instance buffer.  prepare() is
\* parametric in this value: it only compares byte sizes.
InitialCapacity == 1

\* Ticks per axis are 0..NumTicks (a scaled stand-in for the code's
\* `num_ticks = 10`, plotting.rs:890 and 934, and for the `num_ticks = 5`
\* of the 3D box, plotting.rs:1042).
NumTicks == 1

\* Images compared have up to MaxPixels pixels.
MaxPixels == 2

(***************************************************************************)
(* Program constants.                                                      *)
(***************************************************************************)
\* std::mem::size_of::<Instance>(): five [f32; 4] fields.
InstanceSize == 80
\* const COPY_BYTES_PER_ROW_ALIGNMENT: u32 = 256
COPY_BYTES_PER_ROW_ALIGNMENT == 256

\* const SOFT_THRESHOLD: u8 = 5;
SOFT_THRESHOLD == 5
\* marker_type arguments (u32) given to draw_circle and draw_marker.
MarkerTypes == {3, 20}

VARIABLES
  \* PrimitiveRenderer
  instances,        \* Vec<Instance>: the batch accumulator
  instance_buffer,  \* size in bytes of the wgpu instance buffer
  capacity,         \* the `capacity` field (a number of instances)
  uploaded,         \* instance data last written by queue.write_buffer
  draws,            \* draw calls recorded by the last render(), in order
  bound,            \* what the last render() bound in its pass, in order
  drawn,            \* number of draw_* calls made so far
  \* TextRenderer
  queued_texts,     \* Vec<QueuedText>
  brush,            \* the sections last handed to brush.queue()
  \* HeadlessRenderer
  width, height,    \* u32
  padded_row,       \* padded_bytes_per_row(width) as computed by new()
  staging_bytes,    \* size the staging buffer was created with
  texture,          \* the frame the off-screen texture holds
  staging,          \* contents of the staging buffer
  map_state,        \* "unmapped", "pending" or "mapped"
  channel,          \* the mpsc channel of the map callback
  gpu_work,         \* command buffers submitted and not yet executed
  pc,               \* where the caller thread is
  returned,         \* what the last capture() returned ("none" before)
  touched,          \* a renderer operation was called since the last capture()
  overflow_checks,  \* the build panics on integer overflow (else it wraps)
  \* PlotCapture
  chart,            \* the PlotBackend: axis configuration and plotted data
  rac_pc,           \* where the caller is inside render_and_capture()
  \* compare_images / diff_pixels
  img_actual,       \* the `actual` RGBA buffer
  img_expected,     \* the `expected` RGBA buffer
  img_width,        \* the width given to compare_images
  img_height,       \* the height given to compare_images
  compared,         \* <<what compare_images returned>> (<<>> before the call)
  heatmap,          \* <<what diff_pixels returned>> (<<>> before the call)
  \* PrimitiveRenderer: the per-frame uniforms
  screen_size,      \* Vec2
  view_proj,        \* Mat4, as its 16 entries
  uniform_buffer,   \* the 24 f32 of the uniform buffer on the GPU
  \* tests/visual_regression.rs
  test_outcome      \* per test function: "pending", "found" or "panicked"

prim_vars ==
  <<instances, instance_buffer, capacity, uploaded, draws, bound, drawn>>

text_vars == <<queued_texts, brush>>

size_vars == <<width, height, padded_row, staging_bytes, overflow_checks>>

gpu_vars == <<texture, staging, map_state, channel, gpu_work>>

plot_vars == <<chart, rac_pc>>

cmp_vars ==
  <<img_actual, img_expected, img_width, img_height, compared, heatmap>>

uni_vars == <<screen_size, view_proj, uniform_buffer>>

vars == <<prim_vars, text_vars, size_vars, gpu_vars, plot_vars, cmp_vars,
          uni_vars, test_outcome, pc, returned, touched>>

(***************************************************************************)
(* u32 arithmetic.  A u32 is kept as its four bytes, least significant     *)
(* first, so that values up to 2^32 - 1 and their overflow are exact.      *)
(* Each operation yields the wrapped value and whether it overflowed: a    *)
(* build with overflow checks panics on overflow, one without wraps.       *)
(* The operations are functions on U32, so that an operand is a value      *)
(* when the operation is applied, as it is in the program.                 *)
(***************************************************************************)
U32 == (0..255) \X (0..255) \X (0..255) \X (0..255)

ToU32(n) ==
  <<n % 256, (n \div 256) % 256, (n \div 65536) % 256, (n \div 16777216) % 256>>

\* Defined for values below 2^31.
ToNat(a) == a[1] + 256 * a[2] + 65536 * a[3] + 16777216 * a[4]

U32Less(a, b) ==
  \/ a[4] < b[4]
  \/ a[4] = b[4] /\ a[3] < b[3]
  \/ a[4] = b[4] /\ a[3] = b[3] /\ a[2] < b[2]
  \/ a[4] = b[4] /\ a[3] = b[3] /\ a[2] = b[2] /\ a[1] < b[1]

U32AddFn[a \in U32, b \in U32] ==
  LET s1 == a[1] + b[1]
      s2 == a[2] + b[2] + s1 \div 256
      s3 == a[3] + b[3] + s2 \div 256
      s4 == a[4] + b[4] + s3 \div 256
  IN [val |-> <<s1 % 256, s2 % 256, s3 % 256, s4 % 256>>, ovf |-> s4 >= 256]

U32Add(a, b) == U32AddFn[a, b]

U32SubFn[a \in U32, b \in U32] ==
  LET d1 == a[1] - b[1]
      d2 == a[2] - b[2] - (IF d1 < 0 THEN 1 ELSE 0)
      d3 == a[3] - b[3] - (IF d2 < 0 THEN 1 ELSE 0)
      d4 == a[4] - b[4] - (IF d3 < 0 THEN 1 ELSE 0)
  IN [val |-> <<d1 % 256, d2 % 256, d3 % 256, d4 % 256>>, ovf |-> d4 < 0]

U32Sub(a, b) == U32SubFn[a, b]

U32MulFn[a \in U32, b \in U32] ==
  LET c1 == a[1] * b[1]
      c2 == a[1] * b[2] + a[2] * b[1] + c1 \div 256
      c3 == a[1] * b[3] + a[2] * b[2] + a[3] * b[1] + c2 \div 256
      c4 == a[1] * b[4] + a[2] * b[3] + a[3] * b[2] + a[4] * b[1] + c3 \div 256
      c5 == a[2] * b[4] + a[3] * b[3] + a[4] * b[2] + c4 \div 256
      c6 == a[3] * b[4] + a[4] * b[3] + c5 \div 256
      c7 == a[4] * b[4] + c6 \div 256
  IN [val |-> <<c1 % 256, c2 % 256, c3 % 256, c4 % 256>>,
      ovf |-> c5 % 256 # 0 \/ c6 % 256 # 0 \/ c7 # 0]

U32Mul(a, b) == U32MulFn[a, b]

\* Division by a divisor below 2^16 (never overflows).
U32DivFn[a \in U32, d \in U32] ==
  LET n == ToNat(d)
      t4 == a[4]
      t3 == (t4 % n) * 256 + a[3]
      t2 == (t3 % n) * 256 + a[2]
      t1 == (t2 % n) * 256 + a[1]
  IN <<(t1 \div n) % 256, (t2 \div n) % 256, (t3 \div n) % 256, (t4 \div n) % 256>>

U32Div(a, d) == U32DivFn[a, d]

U32Rem(a, d) ==
  LET n == ToNat(d)
      t3 == (a[4] % n) * 256 + a[3]
      t2 == (t3 % n) * 256 + a[2]
      t1 == (t2 % n) * 256 + a[1]
  IN t1 % n

(***************************************************************************)
(* fn padded_bytes_per_row(width: u32) -> u32                              *)
(*   let unpadded = width * 4;                                             *)
(*   (unpadded + align - 1) / align * align                                *)
(***************************************************************************)
padded_bytes_per_row(w) ==
  LET align    == ToU32(COPY_BYTES_PER_ROW_ALIGNMENT)
      unpadded == U32Mul(w, ToU32(4))
      sum      == U32Add(unpadded.val, align)
      less     == U32Sub(sum.val, ToU32(1))
      quot     == U32Div(less.val, align)
      prod     == U32Mul(quot, align)
  IN [val |-> prod.val,
      ovf |-> unpadded.ovf \/ sum.ovf \/ less.ovf \/ prod.ovf]

\* size: (padded_row * height) as u64 -- the product is taken in u32.
staging_size(padded, h) == U32Mul(padded, h)

(***************************************************************************)
(* Instance records.  `tag` is params[0]; `seq` stands for the geometry    *)
(* and colour payload of the record, which the renderer never inspects:    *)
(* every draw_* call is given a payload of its own.                        *)
(***************************************************************************)
Instance(tag, seq) == [tag |-> tag, seq |-> seq]

\* The sort key of prepare() / predicate of render(): `params[0] as u32`
\* is 30 or 31.  Tags are u32 values converted to f32, exact in this range.
IsFace(i) == i.tag = 30 \/ i.tag = 31

\* A sort key that sends only tag 30 to the front.
SortKey_Only30(i) == i.tag # 30

\* The key of sort_by_key in prepare(): t != 30 && t != 31.
SortKey(i) == i.tag # 30 /\ i.tag # 31

KeyFalse(i) == ~SortKey(i)

Reverse(s) == [k \in 1..Len(s) |-> s[Len(s) + 1 - k]]

\* An unstable sort: equal keys do not keep their order.
SortFacesFirst_Unstable(s) ==
  SelectSeq(s, KeyFalse) \o Reverse(SelectSeq(s, SortKey))

\* sort_by_key: a stable sort on a boolean key, false (face) before true;
\* records of equal key keep their order.
SortFacesFirst(s) == SelectSeq(s, KeyFalse) \o SelectSeq(s, SortKey)

(***************************************************************************)
(* slice::partition_point (a binary search).  On a slice that is not       *)
(* partitioned the result is unspecified; the two binary searches the      *)
(* standard library has shipped are both modelled, and render() may get    *)
(* the result of either.                                                   *)
(***************************************************************************)
RECURSIVE SearchA(_, _, _)
\* while left < right { mid = left + size/2; pred ? left = mid+1 : right = mid }
\* (0-based left/right; s is 1-based).
SearchA(s, left, right) ==
  IF left < right
  THEN LET mid == left + (right - left) \div 2 IN
       IF IsFace(s[mid + 1])
       THEN SearchA(s, mid + 1, right)
       ELSE SearchA(s, left, mid)
  ELSE left

RECURSIVE SearchB(_, _, _)
\* while size > 1 { half = size/2; mid = base+half; base = pred(mid) ? mid
\* : base; size -= half }  then base + pred(base)
SearchB(s, base, size) ==
  IF size > 1
  THEN LET half == size \div 2
           mid  == base + half IN
       SearchB(s, IF IsFace(s[mid + 1]) THEN mid ELSE base, size - half)
  ELSE base + (IF IsFace(s[base + 1]) THEN 1 ELSE 0)

SearchImpls == {"bisect", "branchless"}

partition_point(s, impl) ==
  IF Len(s) = 0 THEN 0
  ELSE IF impl = "bisect" THEN SearchA(s, 0, Len(s))
  ELSE SearchB(s, 0, Len(s))

(***************************************************************************)
(* render(): the draw calls it records, as [pipeline, first, last):        *)
(* instances first .. last-1 (0-based) of the bound instance buffer.       *)
(***************************************************************************)
DrawCall(pipeline, first, last) ==
  [pipeline |-> pipeline, first |-> first, last |-> last]

\* if split_idx > 0 { set_pipeline(depth_write); draw(0..6, 0..split_idx) }
DepthDraw(split, len) ==
  IF split > 0 THEN <<DrawCall("depth_write", 0, split)>> ELSE <<>>

\* A line/blend draw that starts one instance late.
LinesDraw_SkipFirst(split, len) ==
  IF split < len THEN <<DrawCall("lines", split + 1, len)>> ELSE <<>>

\* if split_idx < len { set_pipeline(lines); draw(0..6, split_idx..len) }
LinesDraw(split, len) ==
  IF split < len THEN <<DrawCall("lines", split, len)>> ELSE <<>>

RenderDraws(s, impl) ==
  IF s = <<>> THEN <<>>
  ELSE LET split_idx == partition_point(s, impl) IN
       DepthDraw(split_idx, Len(s)) \o LinesDraw(split_idx, Len(s))

(***************************************************************************)
(* prepare(): sort, grow the buffer when the batch does not fit, upload.   *)
(***************************************************************************)
BatchBytes(s) == Len(s) * InstanceSize

\* A reallocation whenever the sizes differ.
MustGrow_Resize(size, buffer_size) == size # buffer_size

\* if size > self.instance_buffer.size()
MustGrow(size, buffer_size) == size > buffer_size

\* A buffer grown by one record only.
PreparedBuffer_OneMore(s, buffer_size) ==
  IF MustGrow(BatchBytes(s), buffer_size)
  THEN buffer_size + InstanceSize
  ELSE buffer_size

PreparedBuffer(s, buffer_size) ==
  IF MustGrow(BatchBytes(s), buffer_size) THEN BatchBytes(s) ELSE buffer_size

PreparedCapacity(s, buffer_size, cap) ==
  IF MustGrow(BatchBytes(s), buffer_size) THEN Len(s) ELSE cap

\* A prepare() that drains the accumulator once the batch is uploaded.
PrimPrepare_Drain ==
  IF instances = <<>>
  THEN UNCHANGED <<instances, instance_buffer, capacity, uploaded>>
  ELSE /\ instances' = <<>>
       /\ instance_buffer' = PreparedBuffer(instances, instance_buffer)
       /\ capacity' = PreparedCapacity(instances, instance_buffer, capacity)
       /\ uploaded' = SortFacesFirst(instances)

PrimPrepare ==
  IF instances = <<>>
  THEN UNCHANGED <<instances, instance_buffer, capacity, uploaded>>
  ELSE /\ instances' = SortFacesFirst(instances)
       /\ instance_buffer' = PreparedBuffer(instances, instance_buffer)
       /\ capacity' = PreparedCapacity(instances, instance_buffer, capacity)
       /\ uploaded' = SortFacesFirst(instances)

\* A render() that binds before it looks at the accumulator.
RenderBindings_Always(s) == <<"bind_group", "vertex_buffer">>

\* if self.instances.is_empty() { return; }
\* rp.set_bind_group(0, ..); rp.set_vertex_buffer(0, ..);
RenderBindings(s) ==
  IF s = <<>> THEN <<>> ELSE <<"bind_group", "vertex_buffer">>

PrimRender ==
  /\ \E impl \in SearchImpls : draws' = RenderDraws(instances, impl)
  /\ bound' = RenderBindings(instances)

\* A draw_* that puts the new record in front of the batch.
Push_Front(tag) ==
  /\ drawn < MaxDraws
  /\ instances' = <<Instance(tag, drawn + 1)>> \o instances
  /\ drawn' = drawn + 1
  /\ UNCHANGED <<instance_buffer, capacity, uploaded, draws, bound>>

\* self.instances.push(Instance { params: [tag, ..], .. })
Push(tag) ==
  /\ drawn < MaxDraws
  /\ instances' = Append(instances, Instance(tag, drawn + 1))
  /\ drawn' = drawn + 1
  /\ UNCHANGED <<instance_buffer, capacity, uploaded, draws, bound>>

(***************************************************************************)
(* TextRenderer.                                                           *)
(***************************************************************************)
\* Texts given to draw_text.
Texts == {"a"}

\* prepare(): one Section per queued text, in queue order, handed to
\* brush.queue(); then queued_texts.clear().
Sections(q) == [k \in 1..Len(q) |-> [text |-> q[k]]]

\* A prepare() that hands the brush the texts last queued first.
TextPrepare_Reversed ==
  /\ brush' = Sections([k \in 1..Len(queued_texts) |->
                          queued_texts[Len(queued_texts) + 1 - k]])
  /\ queued_texts' = <<>>

TextPrepare ==
  /\ brush' = Sections(queued_texts)
  /\ queued_texts' = <<>>

(***************************************************************************)
(* The device.  The frame a render pass leaves in the texture is a         *)
(* function of what the pass was given: the draw calls with the instance   *)
(* data they read, and the sections the brush draws.  A byte of the        *)
(* texture is named by the frame and its place in it.                      *)
(***************************************************************************)
\* The texture before any render pass has cleared it.
BlankFrame == [cleared |-> FALSE, prims |-> <<>>, texts |-> <<>>]

\* A byte of a freshly created buffer.
ZeroByte == <<0>>

Slot(data, i) == IF i <= Len(data) THEN data[i] ELSE "stale"

Frame(d, data, sections) ==
  [cleared |-> TRUE,
   prims |-> [k \in 1..Len(d) |->
               [pipeline |-> d[k].pipeline,
                items |-> [j \in 1..(d[k].last - d[k].first) |->
                            Slot(data, d[k].first + j)]]],
   texts |-> sections]

TexelByte(frame, x, y, c) == <<frame, x, y, c>>

\* copy_texture_to_buffer with bytes_per_row = row_stride: row y of the
\* texture lands at byte offset y * row_stride; bytes of the buffer
\* outside the copied rows keep their value.
CopyTextureToBuffer(frame, buf, w, h, row_stride) ==
  [i \in 1..Len(buf) |->
     LET o == i - 1
         y == o \div row_stride
         b == o % row_stride
     IN IF y < h /\ b < w * 4
        THEN TexelByte(frame, b \div 4, y, b % 4)
        ELSE buf[i]]

(***************************************************************************)
(* The command buffer capture() records, in recording order: the render    *)
(* pass (LoadOp::Clear to white, prim.render's draw calls, text.render),   *)
(* then copy_texture_to_buffer.  The device executes the commands in that  *)
(* order: the clear wipes what the texture held, each draw adds the        *)
(* instances it reads, the brush adds the sections it was handed, and the  *)
(* copy takes the texture as it is at that point.                          *)
(***************************************************************************)
Command(op, arg) == [op |-> op, arg |-> arg]

\* A capture() that records the copy ahead of the render pass.
CommandBuffer_CopyFirst(d, bytes_per_row) ==
  <<Command("copy", bytes_per_row), Command("clear", "white")>>
    \o [k \in 1..Len(d) |-> Command("draw", d[k])]
    \o <<Command("text", "brush")>>

CommandBuffer(d, bytes_per_row) ==
  <<Command("clear", "white")>>
    \o [k \in 1..Len(d) |-> Command("draw", d[k])]
    \o <<Command("text", "brush"), Command("copy", bytes_per_row)>>

ClearedFrame == [cleared |-> TRUE, prims |-> <<>>, texts |-> <<>>]

DrawItems(call, data) ==
  [pipeline |-> call.pipeline,
   items |-> [j \in 1..(call.last - call.first) |-> Slot(data, call.first + j)]]

RECURSIVE ExecuteCommands(_, _, _, _, _, _, _)
ExecuteCommands(cmds, tex, buf, data, sections, w, h) ==
  IF cmds = <<>> THEN [texture |-> tex, staging |-> buf]
  ELSE LET c    == Head(cmds)
           tex2 == CASE c.op = "clear" -> ClearedFrame
                     [] c.op = "draw" ->
                          [tex EXCEPT !.prims = Append(@, DrawItems(c.arg, data))]
                     [] c.op = "text" -> [tex EXCEPT !.texts = @ \o sections]
                     [] OTHER -> tex
           buf2 == IF c.op = "copy"
                   THEN CopyTextureToBuffer(tex, buf, w, h, c.arg)
                   ELSE buf
       IN ExecuteCommands(Tail(cmds), tex2, buf2, data, sections, w, h)

(***************************************************************************)
(* capture(): the readback loop.                                           *)
(*   for row in 0..height { start = row * padded_row;                      *)
(*     pixels.extend_from_slice(&data[start..start + unpadded_row]) }      *)
(***************************************************************************)
RowStart(row, stride) == row * stride

RECURSIVE ReadRows_Tight(_, _, _, _, _)
\* A readback that takes the staging rows to be tightly packed.
ReadRows_Tight(data, row, h, unpadded, stride) ==
  IF row >= h THEN <<>>
  ELSE LET start == RowStart(row, unpadded) IN
       SubSeq(data, start + 1, start + unpadded)
         \o ReadRows_Tight(data, row + 1, h, unpadded, stride)

RECURSIVE ReadRows(_, _, _, _, _)
ReadRows(data, row, h, unpadded, stride) ==
  IF row >= h THEN <<>>
  ELSE LET start == RowStart(row, stride) IN
       SubSeq(data, start + 1, start + unpadded)
         \o ReadRows(data, row + 1, h, unpadded, stride)

(***************************************************************************)
(* Operations of the caller thread.  All of them run to completion except  *)
(* capture(), which blocks in device.poll() until the device has executed  *)
(* the submitted work and the map callback has fired.                      *)
(***************************************************************************)
Idle == pc = "idle"

CallerOp ==
  /\ Idle
  /\ rac_pc = "idle"
  /\ touched' = TRUE
  /\ UNCHANGED <<size_vars, gpu_vars, plot_vars, cmp_vars, uni_vars, test_outcome, pc, returned>>

draw_rect == CallerOp /\ Push(0) /\ UNCHANGED text_vars

draw_circle ==
  \E marker_type \in MarkerTypes :
    CallerOp /\ Push(marker_type) /\ UNCHANGED text_vars

draw_oval == CallerOp /\ Push(1) /\ UNCHANGED text_vars

draw_marker ==
  \E marker_type \in MarkerTypes :
    CallerOp /\ Push(10 + marker_type) /\ UNCHANGED text_vars

draw_line == CallerOp /\ Push(2) /\ UNCHANGED text_vars

draw_triangle_unlit == CallerOp /\ Push(31) /\ UNCHANGED text_vars

draw_triangle == CallerOp /\ Push(30) /\ UNCHANGED text_vars

clear ==
  /\ CallerOp
  /\ instances' = <<>>
  /\ UNCHANGED <<instance_buffer, capacity, uploaded, draws, bound, drawn, text_vars>>

prepare ==
  /\ CallerOp
  /\ PrimPrepare
  /\ UNCHANGED <<draws, bound, drawn, text_vars>>

render ==
  /\ CallerOp
  /\ PrimRender
  /\ UNCHANGED <<instances, instance_buffer, capacity, uploaded, drawn, text_vars>>

\* self.queued_texts.push(QueuedText { text, .. }) for a text of T, with at
\* most n texts queued.
DrawText(T, n) ==
  /\ CallerOp
  /\ Len(queued_texts) < n
  /\ \E t \in T : queued_texts' = Append(queued_texts, t)
  /\ UNCHANGED <<brush, prim_vars>>

draw_text == DrawText(Texts, MaxTexts)

\* Texts of a TextRenderer driven directly by its caller, and how many of
\* them are queued at a time.
Labels == {"a", "b"}

MaxQueued == 3

draw_label == DrawText(Labels, MaxQueued)

\* TextRenderer::prepare(device, queue)
text_prepare ==
  /\ CallerOp
  /\ TextPrepare
  /\ UNCHANGED prim_vars

\* TextRenderer::clear()
text_clear ==
  /\ CallerOp
  /\ queued_texts' = <<>>
  /\ UNCHANGED <<brush, prim_vars>>


\* capture(): self.prim.prepare(..); self.text.prepare(..);
CapturePrepare ==
  /\ Idle
  /\ rac_pc \in {"idle", "translated"}
  /\ PrimPrepare
  /\ TextPrepare
  /\ pc' = "prepared"
  /\ UNCHANGED <<draws, bound, drawn, size_vars, gpu_vars, plot_vars, cmp_vars, uni_vars, test_outcome, returned,
                 touched>>

\* the render pass (clear, prim.render, text.render) and the
\* copy_texture_to_buffer command are recorded in the encoder.
CaptureEncode ==
  /\ pc = "prepared"
  /\ PrimRender
  /\ pc' = "encoded"
  /\ UNCHANGED <<instances, instance_buffer, capacity, uploaded, drawn,
                 text_vars, size_vars, gpu_vars, plot_vars, cmp_vars, uni_vars, test_outcome, returned, touched>>

\* self.queue.submit(once(encoder.finish()))
CaptureSubmit ==
  /\ pc = "encoded"
  /\ gpu_work' = Append(gpu_work,
                        CommandBuffer(draws,
                                      ToNat(padded_bytes_per_row(width).val)))
  /\ pc' = "submitted"
  /\ UNCHANGED <<prim_vars, text_vars, size_vars, texture, staging, map_state,
                 channel, plot_vars, cmp_vars, uni_vars, test_outcome, returned, touched>>

\* buffer_slice.map_async(Read, callback); self.device.poll(Wait).
\* A map request on a buffer that is not unmapped is a validation error,
\* which the device's default error handler turns into a panic.
CaptureMapAsync ==
  /\ pc = "submitted"
  /\ IF map_state = "unmapped"
     THEN /\ map_state' = "pending"
          /\ pc' = "polling"
     ELSE /\ map_state' = map_state
          /\ pc' = "panicked"
  /\ UNCHANGED <<prim_vars, text_vars, size_vars, texture, staging, channel,
                 gpu_work, plot_vars, cmp_vars, uni_vars, test_outcome, returned, touched>>

\* The device executes a submitted command buffer: the render pass, then
\* the copy into the staging buffer.
DeviceExecute ==
  /\ gpu_work # <<>>
  /\ LET done == ExecuteCommands(Head(gpu_work), texture, staging, uploaded,
                                  brush, ToNat(width), ToNat(height))
     IN /\ texture' = done.texture
        /\ staging' = done.staging
  /\ gpu_work' = Tail(gpu_work)
  /\ UNCHANGED <<prim_vars, text_vars, size_vars, map_state, channel, pc,
                 plot_vars, cmp_vars, uni_vars, test_outcome, returned, touched>>

\* The device resolves the pending map once the work before it is done and
\* the caller polls: the callback sends the result on the channel.
DeviceMapCallback ==
  /\ pc = "polling"
  /\ gpu_work = <<>>
  /\ map_state = "pending"
  /\ \E result \in {"Ok", "Err"} :
       /\ map_state' = IF result = "Ok" THEN "mapped" ELSE "unmapped"
       /\ channel' = Append(channel, result)
  /\ pc' = "recv"
  /\ UNCHANGED <<prim_vars, text_vars, size_vars, texture, staging, gpu_work,
                 plot_vars, cmp_vars, uni_vars, test_outcome, returned, touched>>

\* The device drops the pending map's callback without calling it (the
\* device is lost or dropped): the sender goes with it, which closes the
\* channel with nothing sent.
DeviceDropCallback ==
  /\ pc = "polling"
  /\ gpu_work = <<>>
  /\ map_state = "pending"
  /\ map_state' = "unmapped"
  /\ channel' = Append(channel, "Closed")
  /\ pc' = "recv"
  /\ UNCHANGED <<prim_vars, text_vars, size_vars, texture, staging, gpu_work,
                 plot_vars, cmp_vars, uni_vars, test_outcome, returned, touched>>

\* A capture() whose wait gives up: it returns when the result is there,
\* and abandons the map request when it is not.
CaptureReadback_GiveUp ==
  \/ /\ pc = "recv"
     /\ channel # <<>> /\ Head(channel) = "Ok"
     /\ channel' = Tail(channel)
     /\ LET unpadded_row == ToNat(U32Mul(width, ToU32(4)).val)
            stride       == ToNat(padded_bytes_per_row(width).val)
            pixels       == ReadRows(staging, 0, ToNat(height), unpadded_row,
                                     stride)
        IN returned' = pixels
     /\ map_state' = "unmapped"
     /\ touched' = FALSE
     /\ pc' = "idle"
     /\ rac_pc' = "idle"
     /\ UNCHANGED <<prim_vars, text_vars, size_vars, texture, staging,
                    gpu_work, chart, cmp_vars, uni_vars, test_outcome>>
  \/ /\ pc = "polling"
     /\ map_state' = "unmapped"
     /\ pc' = "idle"
     /\ rac_pc' = "idle"
     /\ UNCHANGED <<prim_vars, text_vars, size_vars, texture, staging,
                    gpu_work, channel, chart, cmp_vars, uni_vars, test_outcome, returned, touched>>

\* A capture() that returns the pixels and leaves the buffer mapped.
CaptureReadback_NoUnmap ==
  /\ pc = "recv"
  /\ channel # <<>> /\ Head(channel) = "Ok"
  /\ channel' = Tail(channel)
  /\ LET unpadded_row == ToNat(U32Mul(width, ToU32(4)).val)
         stride       == ToNat(padded_bytes_per_row(width).val)
         pixels       == ReadRows(staging, 0, ToNat(height), unpadded_row, stride)
     IN returned' = pixels
  /\ touched' = FALSE
  /\ pc' = "idle"
  /\ rac_pc' = "idle"
  /\ UNCHANGED <<prim_vars, text_vars, size_vars, texture, staging, gpu_work,
                 chart, cmp_vars, uni_vars, test_outcome, map_state>>

\* rx.recv() gave Ok: copy the rows out, unmap, return the pixels.
CaptureReadback ==
  /\ pc = "recv"
  /\ channel # <<>> /\ Head(channel) = "Ok"
  /\ channel' = Tail(channel)
  /\ LET unpadded_row == ToNat(U32Mul(width, ToU32(4)).val)
         stride       == ToNat(padded_bytes_per_row(width).val)
         pixels       == ReadRows(staging, 0, ToNat(height), unpadded_row, stride)
     IN returned' = pixels
  /\ map_state' = "unmapped"
  /\ touched' = FALSE
  /\ pc' = "idle"
  /\ rac_pc' = "idle"
  /\ UNCHANGED <<prim_vars, text_vars, size_vars, texture, staging, gpu_work,
                 chart, cmp_vars, uni_vars, test_outcome>>

\* A capture() that shrugs off a failed map and returns what it has.
CapturePanic_ReturnEmpty ==
  /\ pc = "recv"
  /\ channel # <<>> /\ Head(channel) \in {"Err", "Closed"}
  /\ channel' = Tail(channel)
  /\ returned' = <<>>
  /\ pc' = "idle"
  /\ rac_pc' = "idle"
  /\ UNCHANGED <<prim_vars, text_vars, size_vars, texture, staging, map_state,
                 gpu_work, chart, cmp_vars, uni_vars, test_outcome, touched>>

\* rx.recv() gave Err(RecvError) (channel closed): .expect("GPU channel
\* closed") panics; it gave Ok(Err(_)): .expect("Failed to map staging
\* buffer") panics.
CapturePanic ==
  /\ pc = "recv"
  /\ channel # <<>> /\ Head(channel) \in {"Err", "Closed"}
  /\ channel' = Tail(channel)
  /\ pc' = "panicked"
  /\ UNCHANGED <<prim_vars, text_vars, size_vars, texture, staging, map_state,
                 gpu_work, plot_vars, cmp_vars, uni_vars, test_outcome, returned, touched>>

(***************************************************************************)
(* PlotBackend::render(renderer, text_renderer, None): the chart           *)
(* translator.  It takes &self, so it reads the chart state and changes    *)
(* only the two accumulators, through draw_* and draw_text.  The charts    *)
(* modelled are 2D charts without data (no series, areas, bars, bins or    *)
(* surfaces): what varies is the axis configuration.  A call is written    *)
(* [fn, arg]: arg is the tag of the record a draw_* call pushes, or the    *)
(* text of a draw_text call.                                               *)
(***************************************************************************)
Call(fn, arg) == [fn |-> fn, arg |-> arg]

Repeat(n, calls) == [k \in 1..(n * Len(calls)) |-> calls[((k - 1) % Len(calls)) + 1]]

\* format!("{:.1}", x) of tick i of an axis, with the place it is drawn at.
TickLabel(axis, i) == axis \o ToString(i)

\* for i in 0..=num_ticks { draw_line } twice (vertical, horizontal lines)
draw_grid ==
  Repeat(NumTicks + 1, <<Call("draw_line", 2)>>)
    \o Repeat(NumTicks + 1, <<Call("draw_line", 2)>>)

draw_axes_border == Repeat(4, <<Call("draw_line", 2)>>)

\* for i in 0..=num_ticks { draw_line; draw_text(label) } for x, then for y
draw_ticks_and_labels ==
  LET ticks(axis) ==
        [k \in 1..(2 * (NumTicks + 1)) |->
           IF k % 2 = 1 THEN Call("draw_line", 2)
           ELSE Call("draw_text", TickLabel(axis, (k \div 2) - 1))]
  IN ticks("x") \o ticks("y")

\* A wall of the 3D box: quad() and the grid lines on it (the ticks of the
\* box are scaled as those of the 2D grid are).
BoxWall ==
  Repeat(2, <<Call("draw_triangle_unlit", 31)>>)
    \o Repeat(2 * (NumTicks + 1), <<Call("draw_line", 2)>>)

\* Floor, back wall, side wall, then the nine lines of the open frame.
draw_3d_box_and_walls ==
  BoxWall \o BoxWall \o BoxWall \o Repeat(9, <<Call("draw_line", 2)>>)

\* let is_3d = self.series.iter().any(|s| !s.z.is_empty())
\*             || !self.surfaces.is_empty();
Is3d(c) ==
  \/ \E k \in 1..Len(c.series) : c.series[k].z # <<>>
  \/ c.surfaces # <<>>

\* The prim_type draw_series gives draw_circle for a marker style.
PrimType(marker_style) ==
  CASE marker_style = "Circle" -> 1
    [] marker_style = "Square" -> 0
    [] marker_style = "Diamond" -> 13
    [] marker_style = "Plus" -> 10
    [] marker_style = "Cross" -> 11
    [] marker_style = "Point" -> 1

\* count in draw_series: the least of the lengths of x, y and, in 3D, z.
SeriesCount(s, is_3d) ==
  IF is_3d
  THEN IF Len(s.x) <= Len(s.y)
       THEN (IF Len(s.x) <= Len(s.z) THEN Len(s.x) ELSE Len(s.z))
       ELSE (IF Len(s.y) <= Len(s.z) THEN Len(s.y) ELSE Len(s.z))
  ELSE IF Len(s.x) <= Len(s.y) THEN Len(s.x) ELSE Len(s.y)

\* draw_series: the calls it makes and whether it panics.  With a count of
\* 0 (x and y hold two values or more, z none, in 3D) and a line width
\* above 0, `0..count - 1` either panics on the subtraction or, wrapped to
\* usize::MAX, starts at i = 0, where series.z[0] is out of bounds: no
\* build draws a line.
draw_series(s, is_3d) ==
  IF Len(s.x) < 2 \/ Len(s.y) < 2
  THEN [calls |-> <<>>, panicked |-> FALSE]
  ELSE LET count == SeriesCount(s, is_3d) IN
       IF s.line_width > 0 /\ count = 0
       THEN [calls |-> <<>>, panicked |-> TRUE]
       ELSE [calls |->
               (IF s.line_width > 0
                THEN Repeat(count - 1, <<Call("draw_line", 2)>>) ELSE <<>>)
               \o (IF s.marker_style # "None"
                   THEN Repeat(count,
                               <<Call("draw_circle", PrimType(s.marker_style))>>)
                   ELSE <<>>),
             panicked |-> FALSE]

RECURSIVE DrawAllSeries(_, _)
\* for series in &self.series { self.draw_series(renderer, series, is_3d); }
DrawAllSeries(list, is_3d) ==
  IF list = <<>> THEN [calls |-> <<>>, panicked |-> FALSE]
  ELSE LET first == draw_series(Head(list), is_3d) IN
       IF first.panicked THEN first
       ELSE LET rest == DrawAllSeries(Tail(list), is_3d) IN
            [calls |-> first.calls \o rest.calls, panicked |-> rest.panicked]

RECURSIVE Flatten(_)
Flatten(ss) == IF ss = <<>> THEN <<>> ELSE Head(ss) \o Flatten(Tail(ss))

\* draw_area: one rectangle per segment of min(len x, len y) points.
draw_area(a) ==
  LET count == IF Len(a.x) <= Len(a.y) THEN Len(a.x) ELSE Len(a.y) IN
  IF count < 2 THEN <<>> ELSE Repeat(count - 1, <<Call("draw_rect", 0)>>)

\* draw_bars: one rectangle per value.
draw_bars(values) == Repeat(Len(values), <<Call("draw_rect", 0)>>)

\* draw_histogram_bins: one rectangle per bin.
draw_histogram_bins(c) ==
  Repeat(Len(c.histogram_bins), <<Call("draw_rect", 0)>>)

\* The cells of a surface mesh: none unless x and y hold two values or more
\* and z holds one value per grid point.
SurfaceCells(f) ==
  IF Len(f.x) < 2 \/ Len(f.y) < 2 \/ Len(f.z) # Len(f.x) * Len(f.y)
  THEN 0
  ELSE (Len(f.x) - 1) * (Len(f.y) - 1)

\* draw_surface_faces: four triangles (two, double-sided) per cell.
draw_surface_faces(f) ==
  Repeat(4 * SurfaceCells(f), <<Call("draw_triangle", 30)>>)

\* draw_surface_lines: two lines per cell, then the last row and column.
draw_surface_lines(f) ==
  IF SurfaceCells(f) = 0 THEN <<>>
  ELSE Repeat(2 * SurfaceCells(f) + (Len(f.x) - 1) + (Len(f.y) - 1),
              <<Call("draw_line", 2)>>)

\* render(renderer, text_renderer, None): the calls made, in order, up to
\* where a draw_series panics.  The series have no error data, for which
\* draw_error_bars draws nothing.
RenderOutcome(c) ==
  LET is_3d  == Is3d(c)
      series == DrawAllSeries(c.series, is_3d)
      title  == IF c.title # "" THEN <<Call("draw_text", c.title)>> ELSE <<>>
      before ==
        IF is_3d
        THEN Flatten([k \in 1..Len(c.surfaces) |-> draw_surface_faces(c.surfaces[k])])
               \o draw_3d_box_and_walls
        ELSE <<Call("draw_rect", 0)>>
               \o (IF c.show_grid THEN draw_grid ELSE <<>>)
               \o Flatten([k \in 1..Len(c.areas) |-> draw_area(c.areas[k])])
      after ==
        IF is_3d
        THEN Flatten([k \in 1..Len(c.surfaces) |-> draw_surface_lines(c.surfaces[k])])
        ELSE draw_axes_border
               \o draw_ticks_and_labels
               \o Flatten([k \in 1..Len(c.bars) |-> draw_bars(c.bars[k])])
               \o draw_histogram_bins(c)
  IN IF series.panicked
     THEN [calls |-> before \o series.calls, panicked |-> TRUE]
     ELSE [calls |-> before \o series.calls \o after \o title,
           panicked |-> FALSE]

PlotRender(c) == RenderOutcome(c).calls

PlotRenderPanics(c) == RenderOutcome(c).panicked

IsTextCall(c) == c.fn = "draw_text"

IsPrimCall(c) == ~IsTextCall(c)

\* The records the translator pushes: the k-th carries the payload the
\* chart gives the k-th primitive.
TranslatedPrims(c) ==
  LET p == SelectSeq(PlotRender(c), IsPrimCall)
  IN [k \in 1..Len(p) |-> Instance(p[k].arg, k)]

TranslatedTexts(c) ==
  LET t == SelectSeq(PlotRender(c), IsTextCall)
  IN [k \in 1..Len(t) |-> t[k].arg]

Titles == {"", "t"}

\* plot.axis_mut().title = t
set_title ==
  /\ Idle
  /\ rac_pc = "idle"
  /\ \E t \in Titles : chart' = [chart EXCEPT !.title = t]
  /\ UNCHANGED <<prim_vars, text_vars, size_vars, gpu_vars, rac_pc, cmp_vars, uni_vars, test_outcome,
                 pc, returned, touched>>

\* plot.axis_mut().show_grid = b
set_show_grid ==
  /\ Idle
  /\ rac_pc = "idle"
  /\ \E b \in BOOLEAN : chart' = [chart EXCEPT !.show_grid = b]
  /\ UNCHANGED <<prim_vars, text_vars, size_vars, gpu_vars, rac_pc, cmp_vars, uni_vars, test_outcome,
                 pc, returned, touched>>

(***************************************************************************)
(* PlotCapture::render_and_capture():                                      *)
(*   self.headless.prim.clear(); self.headless.text.clear();               *)
(*   self.plot_backend.render(&mut prim, &mut text, None);                 *)
(*   self.headless.capture()                                               *)
(* capture() then runs as the steps above, with rac_pc = "translated",     *)
(* and its return is the return of render_and_capture().                   *)
(***************************************************************************)
\* A render_and_capture() that leaves the primitive accumulator as it is.
RacClearPrim_Skip ==
  /\ Idle
  /\ rac_pc = "idle"
  /\ rac_pc' = "cleared_prim"
  /\ touched' = TRUE
  /\ UNCHANGED <<prim_vars, text_vars, size_vars, gpu_vars, chart, cmp_vars, uni_vars, test_outcome, pc,
                 returned>>

RacClearPrim ==
  /\ Idle
  /\ rac_pc = "idle"
  /\ instances' = <<>>
  /\ rac_pc' = "cleared_prim"
  /\ touched' = TRUE
  /\ UNCHANGED <<instance_buffer, capacity, uploaded, draws, bound, drawn, text_vars,
                 size_vars, gpu_vars, chart, cmp_vars, uni_vars, test_outcome, pc, returned>>

RacClearText ==
  /\ rac_pc = "cleared_prim"
  /\ queued_texts' = <<>>
  /\ rac_pc' = "cleared_text"
  /\ UNCHANGED <<prim_vars, brush, size_vars, gpu_vars, chart, cmp_vars, uni_vars, test_outcome, pc, returned,
                 touched>>

RacTranslate ==
  /\ rac_pc = "cleared_text"
  /\ instances' = instances \o TranslatedPrims(chart)
  /\ queued_texts' = queued_texts \o TranslatedTexts(chart)
  /\ IF PlotRenderPanics(chart)
     THEN pc' = "panicked" /\ rac_pc' = rac_pc
     ELSE pc' = pc /\ rac_pc' = "translated"
  /\ UNCHANGED <<instance_buffer, capacity, uploaded, draws, bound, drawn, brush,
                 size_vars, gpu_vars, chart, cmp_vars, uni_vars, test_outcome,
                 returned, touched>>

(***************************************************************************)
(* HeadlessRenderer::new(width, height): the staging buffer is created     *)
(* with padded_bytes_per_row(width) * height bytes (u32 arithmetic), then  *)
(* the PrimitiveRenderer and the TextRenderer are built.                   *)
(***************************************************************************)
Zeroed(n) == [i \in 1..n |-> ZeroByte]

PrimNew ==
  /\ instances = <<>>
  /\ instance_buffer = InitialCapacity * InstanceSize
  /\ capacity = InitialCapacity
  /\ uploaded = <<>>
  /\ draws = <<>>
  /\ bound = <<>>
  /\ drawn = 0

TextNew ==
  /\ queued_texts = <<>>
  /\ brush = <<>>

\* PlotBackend::new: axis = AxisConfig::default(), no data.
\* The divisor of the padding factor 0.05.  Axis limits are kept in
\* twentieths of a data unit, so that (max - min) * 0.05 is exact for the
\* integer data values used here.
PadDivisor == 20

\* AxisConfig::default(): limits 0.0 .. 1.0 on every axis, no title, grid on.
AxisDefault ==
  [show_grid |-> TRUE, title |-> "",
   x_min |-> 0, x_max |-> PadDivisor,
   y_min |-> 0, y_max |-> PadDivisor,
   z_min |-> 0, z_max |-> PadDivisor]

\* The plotted data of a new PlotBackend: five empty vectors.
NoData ==
  [series |-> <<>>, bars |-> <<>>, histogram_bins |-> <<>>,
   surfaces |-> <<>>, areas |-> <<>>]

PlotNew ==
  /\ chart = AxisDefault @@ NoData
  /\ rac_pc = "idle"

\* glam::Mat4::IDENTITY and the all-zero matrix, as 16 entries.
IdentityMat == [i \in 1..16 |-> IF (i - 1) % 5 = 0 THEN 1 ELSE 0]

ZeroMat == [i \in 1..16 |-> 0]

\* A buffer created with mapped_at_creation: false holds zeros: the three
\* parts of the uniform block, data[0..16], data[16..18] and data[20..23].
ZeroUniforms ==
  [view_proj |-> ZeroMat, screen_size |-> <<ToU32(0), ToU32(0)>>,
   camera_pos |-> <<0, 0, 0>>]

\* PrimitiveRenderer::new(device, format, w, h): the fields are set and the
\* uniform buffer is created; nothing is written to it.
UniformNew(w, h) ==
  /\ screen_size = <<w, h>>
  /\ view_proj = IdentityMat
  /\ uniform_buffer = ZeroUniforms

\* The test functions of tests/visual_regression.rs and the name each
\* passes to run().
TestNames ==
  [test_line_plot |-> "line_plot", test_scatter_plot |-> "scatter_plot",
   test_bar_chart |-> "bar_chart", test_multi_line |-> "multi_line",
   test_histogram |-> "histogram", test_grid_and_labels |-> "grid_and_labels",
   test_heatmap |-> "heatmap", test_surface_3d |-> "surface_3d",
   test_pie_chart |-> "pie_chart", test_box_chart |-> "box_chart"]

Tests == DOMAIN TestNames

\* No test has run.
TestsPending == test_outcome = [t \in Tests |-> "pending"]

\* No images are being compared.
CompareNone ==
  /\ img_actual = <<>>
  /\ img_expected = <<>>
  /\ img_width = 0
  /\ img_height = 0
  /\ compared = <<>>
  /\ heatmap = <<>>

\* The state after new(w, h) returned, for a target small enough to hold
\* the staging buffer's contents in the model.
HeadlessState(w, h) ==
  /\ PrimNew
  /\ UniformNew(w, h)
  /\ TestsPending
  /\ TextNew
  /\ PlotNew
  /\ width = w
  /\ height = h
  /\ overflow_checks = FALSE
  /\ padded_row = padded_bytes_per_row(w).val
  /\ staging_bytes = staging_size(padded_bytes_per_row(w).val, h).val
  /\ texture = BlankFrame
  /\ staging = Zeroed(ToNat(staging_size(padded_bytes_per_row(w).val, h).val))
  /\ map_state = "unmapped"
  /\ channel = <<>>
  /\ gpu_work = <<>>
  /\ pc = "idle"
  /\ returned = "none"
  /\ touched = FALSE

HeadlessInit(w, h) == HeadlessState(w, h) /\ CompareNone

\* A PrimitiveRenderer driven directly by its caller (target of 1 x 1).
Init == HeadlessInit(ToU32(1), ToU32(1))

\* Targets of MaxDim rows, 1 to MaxDim pixels wide.
CaptureInit == \E w \in 1..MaxDim : HeadlessInit(ToU32(w), ToU32(MaxDim))

(***************************************************************************)
(* HeadlessRenderer::new as a step, for any u32 width and height: only     *)
(* the sizes are computed (the buffer contents are not represented).       *)
(***************************************************************************)
SizeWidths ==
  {ToU32(n) : n \in 0..MaxSmallWidth}
    \cup {ToU32(16384), <<255, 255, 255, 255>>}
    \cup {<<b, 255, 255, 63>> : b \in 190..194}

SizeHeights == {ToU32(n) : n \in {0, 1, 2, 600, 65536}}

SizeInit ==
  /\ PrimNew
  /\ TestsPending
  /\ TextNew
  /\ PlotNew
  /\ CompareNone
  /\ width \in SizeWidths
  /\ height \in SizeHeights
  /\ UniformNew(width, height)
  /\ overflow_checks \in BOOLEAN
  /\ padded_row = ToU32(0)
  /\ staging_bytes = ToU32(0)
  /\ texture = BlankFrame
  /\ staging = <<>>
  /\ map_state = "unmapped"
  /\ channel = <<>>
  /\ gpu_work = <<>>
  /\ pc = "new"
  /\ returned = "none"
  /\ touched = FALSE

\* What stands in place of a value whose computation panicked.
Panicked == <<"panic">>

HeadlessNew ==
  /\ pc = "new"
  /\ LET row  == padded_bytes_per_row(width)
         size == staging_size(row.val, height)
     IN IF overflow_checks /\ row.ovf
        THEN /\ pc' = "panicked"
             /\ padded_row' = Panicked
             /\ staging_bytes' = Panicked
        ELSE IF overflow_checks /\ size.ovf
        THEN /\ pc' = "panicked"
             /\ padded_row' = row.val
             /\ staging_bytes' = Panicked
        ELSE /\ pc' = "idle"
             /\ padded_row' = row.val
             /\ staging_bytes' = size.val
  /\ UNCHANGED <<prim_vars, text_vars, width, height, overflow_checks,
                 gpu_vars, plot_vars, cmp_vars, uni_vars, test_outcome, returned, touched>>

SizeSpec == SizeInit /\ [][HeadlessNew]_vars

(***************************************************************************)
(* compare.rs: compare_images and diff_pixels, computed as the loops       *)
(* compute them.  Buffers are sequences of u8, four per pixel (R, G, B,    *)
(* A); sum_sq stands for the f64 accumulator that rmse is taken from.      *)
(***************************************************************************)
\* (a - e).unsigned_abs() of two u8 widened to i32
AbsDiff(a, e) == IF a >= e THEN a - e ELSE e - a

\* A channel test that counts a difference equal to the threshold.
ChannelStep_Inclusive(acc, d) ==
  [sum_sq |-> acc.sum_sq + d * d,
   max_diff |-> IF d > acc.max_diff THEN d ELSE acc.max_diff,
   diff_count |-> acc.diff_count,
   pixel_exceeds |-> acc.pixel_exceeds \/ d >= SOFT_THRESHOLD]

\* The body of `for c in 0..4`.
ChannelStep(acc, d) ==
  [sum_sq |-> acc.sum_sq + d * d,
   max_diff |-> IF d > acc.max_diff THEN d ELSE acc.max_diff,
   diff_count |-> acc.diff_count,
   pixel_exceeds |-> acc.pixel_exceeds \/ d > SOFT_THRESHOLD]

RECURSIVE ChannelLoop(_, _, _, _, _)
ChannelLoop(actual, expected, off, c, acc) ==
  IF c >= 4 THEN acc
  ELSE ChannelLoop(actual, expected, off, c + 1,
                   ChannelStep(acc, AbsDiff(actual[off + c + 1],
                                            expected[off + c + 1])))

RECURSIVE PixelLoop(_, _, _, _, _)
\* The body of `for i in 0..pixel_count`.
PixelLoop(actual, expected, i, pixel_count, acc) ==
  IF i >= pixel_count THEN acc
  ELSE LET px == ChannelLoop(actual, expected, i * 4, 0,
                             [acc EXCEPT !.pixel_exceeds = FALSE])
       IN PixelLoop(actual, expected, i + 1, pixel_count,
                    [px EXCEPT !.diff_count =
                                 IF px.pixel_exceeds THEN @ + 1 ELSE @])

\* The result has `panicked` set where an assert_eq! on the lengths fails.
compare_images(actual, expected, w, h) ==
  LET pixel_count == w * h IN
  IF Len(actual) # pixel_count * 4 \/ Len(expected) # pixel_count * 4
  THEN [panicked |-> TRUE, sum_sq |-> 0, max_diff |-> 0, diff_count |-> 0,
        pixel_count |-> pixel_count]
  ELSE LET acc == PixelLoop(actual, expected, 0, pixel_count,
                            [sum_sq |-> 0, max_diff |-> 0, diff_count |-> 0,
                             pixel_exceeds |-> FALSE])
       IN [panicked |-> FALSE, sum_sq |-> acc.sum_sq,
           max_diff |-> acc.max_diff, diff_count |-> acc.diff_count,
           pixel_count |-> pixel_count]

Max2(a, b) == IF a >= b THEN a ELSE b

Min2(a, b) == IF a <= b THEN a ELSE b

\* A heatmap whose red is not amplified.
DiffPixel_Plain(actual, expected, off) ==
  LET dr    == AbsDiff(actual[off + 1], expected[off + 1])
      dg    == AbsDiff(actual[off + 2], expected[off + 2])
      db    == AbsDiff(actual[off + 3], expected[off + 3])
      max_d == Max2(Max2(dr, dg), db)
  IN IF max_d <= SOFT_THRESHOLD
     THEN <<0, 128, 0, 255>>
     ELSE <<Min2(max_d, 255), 0, 0, 255>>

\* The four bytes diff_pixels writes for the pixel at byte offset off.
DiffPixel(actual, expected, off) ==
  LET dr    == AbsDiff(actual[off + 1], expected[off + 1])
      dg    == AbsDiff(actual[off + 2], expected[off + 2])
      db    == AbsDiff(actual[off + 3], expected[off + 3])
      max_d == Max2(Max2(dr, dg), db)
  IN IF max_d <= SOFT_THRESHOLD
     THEN <<0, 128, 0, 255>>
     ELSE <<Min2(max_d * 10, 255), 0, 0, 255>>

RECURSIVE DiffLoop(_, _, _, _)
DiffLoop(actual, expected, i, pixel_count) ==
  IF i >= pixel_count THEN <<>>
  ELSE DiffPixel(actual, expected, i * 4)
         \o DiffLoop(actual, expected, i + 1, pixel_count)

\* The last byte read of `expected` is the blue channel of the last pixel,
\* at index (pixel_count - 1) * 4 + 2; indexing past its end panics.
diff_pixels(actual, expected) ==
  LET pixel_count == Len(actual) \div 4 IN
  IF pixel_count > 0 /\ Len(expected) < (pixel_count - 1) * 4 + 3
  THEN Panicked
  ELSE DiffLoop(actual, expected, 0, pixel_count)

\* Pixels of `actual`: all channels 0, 5 or 6, or one channel 5 or 6 and
\* the others 0.
ActualPixels ==
  {[c \in 1..4 |-> IF c = k THEN v ELSE 0] : k \in 1..4, v \in {5, 6}}
    \cup {<<v, v, v, v>> : v \in {0, 5, 6}}

\* `expected` is a solid image of one of these levels.
ExpectedLevels == {0, 11, 255}

FlattenPixels(ps) ==
  [k \in 1..(4 * Len(ps)) |-> ps[((k - 1) \div 4) + 1][((k - 1) % 4) + 1]]

\* Two buffers of width * height pixels, for up to MaxPixels pixels.
CompareInit ==
  /\ HeadlessState(ToU32(1), ToU32(1))
  /\ \E w \in 0..MaxPixels, h \in 0..MaxPixels :
       /\ w * h <= MaxPixels
       /\ img_width = w
       /\ img_height = h
       /\ \E ps \in [1..(w * h) -> ActualPixels], e \in ExpectedLevels :
            /\ img_actual = FlattenPixels(ps)
            /\ img_expected = [k \in 1..(4 * w * h) |-> e]
  /\ compared = <<>>
  /\ heatmap = <<>>

CompareImages ==
  /\ compared = <<>>
  /\ compared' = <<compare_images(img_actual, img_expected, img_width,
                                  img_height)>>
  /\ UNCHANGED <<prim_vars, text_vars, size_vars, gpu_vars, plot_vars,
                 img_actual, img_expected, img_width, img_height, heatmap,
                 uni_vars, test_outcome, pc,
                 returned, touched>>

DiffPixels ==
  /\ heatmap = <<>>
  /\ heatmap' = <<diff_pixels(img_actual, img_expected)>>
  /\ UNCHANGED <<prim_vars, text_vars, size_vars, gpu_vars, plot_vars,
                 img_actual, img_expected, img_width, img_height, compared,
                 uni_vars, test_outcome, pc,
                 returned, touched>>

CompareSpec == CompareInit /\ [][CompareImages \/ DiffPixels]_vars

\* The longest byte slice handed to diff_pixels.
MaxBytes == 5

ByteValues == {0, 6}

ByteSlices == UNION {[1..n -> ByteValues] : n \in 0..MaxBytes}

\* Two byte slices of any lengths, as the signature of diff_pixels allows.
SliceInit ==
  /\ HeadlessState(ToU32(1), ToU32(1))
  /\ img_actual \in ByteSlices
  /\ img_expected \in ByteSlices
  /\ img_width = 0
  /\ img_height = 0
  /\ compared = <<>>
  /\ heatmap = <<>>

SliceSpec == SliceInit /\ [][DiffPixels]_vars

(***************************************************************************)
(* PlotBackend: plotted data and auto_scale.  Data values are small        *)
(* integers; f64::MAX and f64::MIN are stood for by a value above and one  *)
(* below every data value, which is all the min/max folds use of them.     *)
(***************************************************************************)
F64_MAX == 1000

F64_MIN == 0 - F64_MAX

\* The vectors handed to the plotting calls.
Coords == {<<>>, <<-1>>, <<2>>}

\* The number of data sets (series, bars, histograms, surfaces, areas) a
\* chart holds.
MaxData == 2

RECURSIVE FoldMin(_, _)
\* for &v in s { acc = acc.min(v) }
FoldMin(acc, s) ==
  IF s = <<>> THEN acc ELSE FoldMin(Min2(acc, Head(s)), Tail(s))

RECURSIVE FoldMax(_, _)
FoldMax(acc, s) ==
  IF s = <<>> THEN acc ELSE FoldMax(Max2(acc, Head(s)), Tail(s))

DataCount(c) ==
  Len(c.series) + Len(c.bars) + Len(c.histogram_bins) + Len(c.surfaces)
    + Len(c.areas)

\* A call that changes the PlotBackend alone.
PlotOp(c) ==
  /\ Idle
  /\ rac_pc = "idle"
  /\ chart' = c
  /\ UNCHANGED <<prim_vars, text_vars, size_vars, gpu_vars, rac_pc, cmp_vars, uni_vars, test_outcome,
                 pc, returned, touched>>

\* plot(x, y, color)
plot ==
  /\ DataCount(chart) < MaxData
  /\ \E x \in Coords, y \in Coords :
       PlotOp([chart EXCEPT !.series =
                 Append(@, [x |-> x, y |-> y, z |-> <<>>, line_width |-> 3,
                            marker_style |-> "None"])])

\* surface(x, y, z, color)
surface ==
  /\ DataCount(chart) < MaxData
  /\ \E x \in Coords, y \in Coords, z \in Coords :
       PlotOp([chart EXCEPT !.surfaces = Append(@, [x |-> x, y |-> y, z |-> z])])

\* bar(values, color)
bar ==
  /\ DataCount(chart) < MaxData
  /\ \E values \in Coords : PlotOp([chart EXCEPT !.bars = Append(@, values)])

\* histogram(data, 1, color): one bin from the least to the greatest value,
\* holding every value; it replaces the bins of an earlier call, and does
\* nothing for empty data.
histogram ==
  /\ DataCount(chart) < MaxData
  /\ \E data \in Coords :
       IF data = <<>>
       THEN PlotOp(chart)
       ELSE PlotOp([chart EXCEPT !.histogram_bins =
                      <<[x_start |-> FoldMin(F64_MAX, data),
                         x_end |-> FoldMax(F64_MIN, data),
                         height |-> Len(data)]>>])

\* area(x, y, color)
area ==
  /\ DataCount(chart) < MaxData
  /\ \E x \in Coords, y \in Coords :
       PlotOp([chart EXCEPT !.areas = Append(@, [x |-> x, y |-> y])])

\* PlotBackend::clear
plot_clear == PlotOp(AxisDefault @@ NoData)

RECURSIVE ScanSeries(_, _)
\* for s in &self.series
ScanSeries(list, acc) ==
  IF list = <<>> THEN acc
  ELSE LET s == Head(list) IN
       ScanSeries(Tail(list),
         [x_min |-> FoldMin(acc.x_min, s.x), x_max |-> FoldMax(acc.x_max, s.x),
          y_min |-> FoldMin(acc.y_min, s.y), y_max |-> FoldMax(acc.y_max, s.y),
          z_min |-> FoldMin(acc.z_min, s.z), z_max |-> FoldMax(acc.z_max, s.z),
          has_z |-> acc.has_z \/ s.z # <<>>])

RECURSIVE ScanSurfaces(_, _)
\* for surf in &self.surfaces
ScanSurfaces(list, acc) ==
  IF list = <<>> THEN acc
  ELSE LET s == Head(list) IN
       ScanSurfaces(Tail(list),
         [x_min |-> FoldMin(acc.x_min, s.x), x_max |-> FoldMax(acc.x_max, s.x),
          y_min |-> FoldMin(acc.y_min, s.y), y_max |-> FoldMax(acc.y_max, s.y),
          z_min |-> FoldMin(acc.z_min, s.z), z_max |-> FoldMax(acc.z_max, s.z),
          has_z |-> TRUE])

RECURSIVE ScanBars(_, _)
\* for (values, _) in &self.bars
ScanBars(list, acc) ==
  IF list = <<>> THEN acc
  ELSE LET values == Head(list) IN
       ScanBars(Tail(list),
         [acc EXCEPT !.x_min = 0,
                     !.x_max = Max2(@, Len(values)),
                     !.y_min = IF values = <<>> THEN @ ELSE Min2(@, 0),
                     !.y_max = FoldMax(@, values)])

RECURSIVE ScanBins(_, _)
\* for (xs, xe, h, _) in &self.histogram_bins
ScanBins(list, acc) ==
  IF list = <<>> THEN acc
  ELSE LET b == Head(list) IN
       ScanBins(Tail(list),
         [acc EXCEPT !.x_min = Min2(@, b.x_start),
                     !.x_max = Max2(@, b.x_end),
                     !.y_min = 0,
                     !.y_max = Max2(@, b.height)])

\* The chart after auto_scale(): unchanged when it holds no series, bars,
\* bins or surfaces; otherwise x and y limits padded by 5% of the range and
\* z limits set tight when any series or surface has z data.
AutoScale(c) ==
  IF c.series = <<>> /\ c.bars = <<>> /\ c.histogram_bins = <<>>
       /\ c.surfaces = <<>>
  THEN c
  ELSE LET start == [x_min |-> F64_MAX, x_max |-> F64_MIN,
                     y_min |-> F64_MAX, y_max |-> F64_MIN,
                     z_min |-> F64_MAX, z_max |-> F64_MIN, has_z |-> FALSE]
           m == ScanBins(c.histogram_bins,
                  ScanBars(c.bars,
                    ScanSurfaces(c.surfaces, ScanSeries(c.series, start))))
           x_pad == m.x_max - m.x_min
           y_pad == m.y_max - m.y_min
       IN [c EXCEPT !.x_min = PadDivisor * m.x_min - x_pad,
                    !.x_max = PadDivisor * m.x_max + x_pad,
                    !.y_min = PadDivisor * m.y_min - y_pad,
                    !.y_max = PadDivisor * m.y_max + y_pad,
                    !.z_min = IF m.has_z THEN PadDivisor * m.z_min ELSE @,
                    !.z_max = IF m.has_z THEN PadDivisor * m.z_max ELSE @]

auto_scale == PlotOp(AutoScale(chart))

\* A PlotBackend being filled with data and scaled.
ScaleNext ==
  \/ plot
  \/ surface
  \/ bar
  \/ histogram
  \/ area
  \/ plot_clear
  \/ auto_scale

ScaleSpec == Init /\ [][ScaleNext]_vars

(***************************************************************************)
(* tests/visual_regression.rs: each #[test] calls run(name), which looks   *)
(* the name up in test_cases::all() and panics when no case has it.  The   *)
(* tests are #[serial]: they run one at a time, in any order, and a panic  *)
(* fails its own test alone.                                               *)
(***************************************************************************)
\* The names of the cases test_cases::all() returns, in order.
all ==
  <<"line_plot", "scatter_plot", "bar_chart", "multi_line", "histogram",
    "grid_and_labels", "heatmap", "surface_3d">>

\* cases.iter().find(|c| c.name == name): the index of the first case of
\* that name, or 0 for None.
Find(cases, name) ==
  IF \E i \in 1..Len(cases) : cases[i] = name
  THEN CHOOSE i \in 1..Len(cases) :
         /\ cases[i] = name
         /\ \A j \in 1..(i - 1) : cases[j] # name
  ELSE 0

\* run(name) up to the call of common::run_visual_test.
run(name) == IF Find(all, name) = 0 THEN "panicked" ELSE "found"

RunTest ==
  \E t \in Tests :
    /\ test_outcome[t] = "pending"
    /\ test_outcome' = [test_outcome EXCEPT ![t] = run(TestNames[t])]
    /\ UNCHANGED <<prim_vars, text_vars, size_vars, gpu_vars, plot_vars,
                   cmp_vars, uni_vars, pc, returned, touched>>

TestSpec == Init /\ [][RunTest]_vars

(***************************************************************************)
(* PrimitiveRenderer: the per-frame uniform block.  queue.write_buffer     *)
(* takes effect before the commands of the next submission run, so the     *)
(* buffer is given the written contents at the call.                       *)
(***************************************************************************)
\* Matrices given to set_view_projection.
Matrices == {IdentityMat, [i \in 1..16 |-> IF (i - 1) % 5 = 0 THEN 2 ELSE 0]}

\* Positions given to set_camera_pos.
CameraPositions == {<<0, 0, 0>>, <<1, 2, 3>>}

\* update_uniforms(): a data array of zeros, with view_proj in data[0..16]
\* and screen_size in data[16..18], written over the whole buffer.
update_uniforms(vp, ss) ==
  [view_proj |-> vp, screen_size |-> ss, camera_pos |-> <<0, 0, 0>>]

\* A call on the PrimitiveRenderer that changes its uniforms alone.
UniformOp ==
  /\ Idle
  /\ rac_pc = "idle"
  /\ UNCHANGED <<prim_vars, text_vars, size_vars, gpu_vars, plot_vars,
                 cmp_vars, test_outcome, pc, returned, touched>>

\* PrimitiveRenderer::resize(queue, width, height)
resize ==
  /\ UniformOp
  /\ \E w \in 1..MaxDim, h \in 1..MaxDim :
       /\ screen_size' = <<ToU32(w), ToU32(h)>>
       /\ uniform_buffer' = update_uniforms(view_proj, <<ToU32(w), ToU32(h)>>)
  /\ UNCHANGED view_proj

set_view_projection ==
  /\ UniformOp
  /\ \E matrix \in Matrices :
       /\ view_proj' = matrix
       /\ uniform_buffer' = update_uniforms(matrix, screen_size)
  /\ UNCHANGED screen_size

\* set_camera_pos(queue, pos): the whole buffer again, with pos in
\* data[20..23]; pos is kept in no field.
set_camera_pos ==
  /\ UniformOp
  /\ \E pos \in CameraPositions :
       uniform_buffer' = [view_proj |-> view_proj, screen_size |-> screen_size,
                          camera_pos |-> pos]
  /\ UNCHANGED <<screen_size, view_proj>>

\* A PrimitiveRenderer whose uniforms are set between draws and frames.
UniformNext ==
  \/ resize
  \/ set_view_projection
  \/ set_camera_pos
  \/ draw_rect
  \/ clear
  \/ prepare
  \/ render

UniformSpec == Init /\ [][UniformNext]_vars

(***************************************************************************)
(* PlotBackend::render on charts that hold series, called by the owner of  *)
(* the two renderers.  Only the lengths of a series' vectors and its line  *)
(* width and marker style decide what draw_series does.                    *)
(***************************************************************************)
Vec(n) == [i \in 1..n |-> 0]

\* Lengths of x, y and z of the series added.
SeriesLengths ==
  {<<2, 2, 0>>, <<3, 2, 0>>, <<1, 3, 0>>, <<2, 3, 1>>, <<3, 3, 2>>,
   <<3, 3, 3>>}

\* Line width and marker style as plot(), scatter() and a marked line
\* plot set them.
SeriesStyles ==
  {[line_width |-> 3, marker_style |-> "None"],
   [line_width |-> 0, marker_style |-> "Circle"],
   [line_width |-> 3, marker_style |-> "Diamond"]}

\* add_series(series)
add_series ==
  /\ DataCount(chart) < MaxData
  /\ \E l \in SeriesLengths, st \in SeriesStyles :
       PlotOp([chart EXCEPT !.series =
                 Append(@, [x |-> Vec(l[1]), y |-> Vec(l[2]), z |-> Vec(l[3]),
                            line_width |-> st.line_width,
                            marker_style |-> st.marker_style])])

\* plot.render(&mut prim, &mut text, None), once on the renderers of a
\* behaviour: the calls reach the two accumulators up to a panic.
plot_render ==
  /\ Idle
  /\ rac_pc = "idle"
  /\ ~touched
  /\ touched' = TRUE
  /\ instances' = instances \o TranslatedPrims(chart)
  /\ queued_texts' = queued_texts \o TranslatedTexts(chart)
  /\ pc' = IF PlotRenderPanics(chart) THEN "panicked" ELSE pc
  /\ UNCHANGED <<instance_buffer, capacity, uploaded, draws, bound, drawn,
                 brush, size_vars, gpu_vars, plot_vars, cmp_vars, uni_vars,
                 test_outcome, returned>>

SeriesNext ==
  \/ add_series
  \/ plot_render
  \/ prepare
  \/ render

SeriesSpec == Init /\ [][SeriesNext]_vars

\* A TextRenderer driven directly by its caller.
TextNext ==
  \/ draw_label
  \/ text_prepare
  \/ text_clear

TextSpec == Init /\ [][TextNext]_vars

\* Operations on the PrimitiveRenderer alone.
PrimNext ==
  \/ draw_rect
  \/ draw_circle
  \/ draw_oval
  \/ draw_marker
  \/ draw_line
  \/ draw_triangle_unlit
  \/ draw_triangle
  \/ clear
  \/ prepare
  \/ render

Spec == Init /\ [][PrimNext]_vars

\* The capture pipeline, fed with one face and one non-face primitive kind
\* and with text; the accumulators are not cleared between captures.
CaptureNext ==
  \/ draw_rect
  \/ draw_triangle
  \/ draw_text
  \/ CapturePrepare
  \/ CaptureEncode
  \/ CaptureSubmit
  \/ CaptureMapAsync
  \/ DeviceExecute
  \/ DeviceMapCallback
  \/ DeviceDropCallback
  \/ CaptureReadback
  \/ CapturePanic

CaptureSpec == CaptureInit /\ [][CaptureNext]_vars

\* A PrimitiveRenderer inside a HeadlessRenderer (target of 1 x 1): the
\* caller appends, clears, prepares and renders by hand, and captures.
FrameNext ==
  \/ draw_rect
  \/ draw_triangle
  \/ clear
  \/ prepare
  \/ render
  \/ CapturePrepare
  \/ CaptureEncode
  \/ CaptureSubmit
  \/ CaptureMapAsync
  \/ DeviceExecute
  \/ DeviceMapCallback
  \/ DeviceDropCallback
  \/ CaptureReadback
  \/ CapturePanic

FrameSpec == Init /\ [][FrameNext]_vars

\* The capture pipeline with its scheduling: the caller thread, once inside
\* capture(), runs its straight-line code; the device eventually executes
\* submitted work and eventually answers a pending map request.  Whether
\* the caller calls capture() or anything else is left open.
CaptureFairness ==
  /\ WF_vars(CaptureEncode)
  /\ WF_vars(CaptureSubmit)
  /\ WF_vars(CaptureMapAsync)
  /\ WF_vars(CaptureReadback)
  /\ WF_vars(CapturePanic)
  /\ WF_vars(DeviceExecute)
  /\ WF_vars(DeviceMapCallback \/ DeviceDropCallback)

\* Captures of a 1 x 1 target between which rectangles are appended.
FairCaptureNext ==
  \/ draw_rect
  \/ CapturePrepare
  \/ CaptureEncode
  \/ CaptureSubmit
  \/ CaptureMapAsync
  \/ DeviceExecute
  \/ DeviceMapCallback
  \/ DeviceDropCallback
  \/ CaptureReadback
  \/ CapturePanic

FairCaptureSpec == Init /\ [][FairCaptureNext]_vars /\ CaptureFairness

\* A PlotCapture: render_and_capture() and capture() on a chart whose axis
\* configuration changes, with primitives and text left in the accumulators
\* by other code of the crate.
PlotNext ==
  \/ set_title
  \/ set_show_grid
  \/ draw_rect
  \/ draw_text
  \/ RacClearPrim
  \/ RacClearText
  \/ RacTranslate
  \/ CapturePrepare
  \/ CaptureEncode
  \/ CaptureSubmit
  \/ CaptureMapAsync
  \/ DeviceExecute
  \/ DeviceMapCallback
  \/ DeviceDropCallback
  \/ CaptureReadback
  \/ CapturePanic

PlotSpec == Init /\ [][PlotNext]_vars

(***************************************************************************)
(* Properties of the PrimitiveRenderer (specification Spec).               *)
(***************************************************************************)
Faces(s) == {i \in DOMAIN s : IsFace(s[i])}

NonFaces(s) == {i \in DOMAIN s : ~IsFace(s[i])}

\* The draw calls of d that draw instance index i (0-based).
Covering(d, i) == {k \in DOMAIN d : d[k].first <= i /\ i < d[k].last}

Calls(d, pipeline) == {k \in DOMAIN d : d[k].pipeline = pipeline}

\* The batch is as the last prepare() uploaded it: nothing was appended or
\* cleared since (every record carries a payload of its own).
Prepared == instances = uploaded

C1_Post ==
  instances # <<>> =>
    /\ Calls(draws, "depth_write") # {} => Faces(instances) # {}
    /\ Calls(draws, "lines") # {} => NonFaces(instances) # {}
    /\ \A k \in DOMAIN draws :
         0 <= draws[k].first /\ draws[k].first < draws[k].last
                            /\ draws[k].last <= Len(instances)
    /\ \A i \in 0..(Len(instances) - 1) :
         Cardinality(Covering(draws, i)) = 1

\* C1: for every non-empty batch, sorted or not, render() issues the
\* depth-writing draw only if the batch holds a face and the line/blend
\* draw only if it holds a non-face, and the drawn ranges are non-empty,
\* lie inside the batch and cover every instance index exactly once.
C1_RenderPartitions == [][render => C1_Post']_vars

\* render() has drawn a batch of three in two calls although a face was
\* appended after a non-face and the batch was not sorted since.
C1_Witness ==
  /\ Len(instances) >= 3
  /\ Len(draws) = 2
  /\ draws[2].last = Len(instances)
  /\ \E i, j \in DOMAIN instances :
       i < j /\ ~IsFace(instances[i]) /\ IsFace(instances[j])

SameClass(a, b) == IsFace(a) <=> IsFace(b)

C2_Ordered ==
  \A i, j \in DOMAIN instances :
    (i < j /\ SameClass(instances[i], instances[j]))
      => instances[i].seq < instances[j].seq

\* Instance j is drawn after instance i: by a later draw call, or by the
\* same call at a higher instance index.
DrawnBefore(d, i, j) ==
  \E ki \in Covering(d, i - 1), kj \in Covering(d, j - 1) :
    ki < kj \/ (ki = kj /\ i < j)

C2_DrawnOrdered ==
  \A i, j \in DOMAIN instances :
    (SameClass(instances[i], instances[j])
       /\ instances[i].seq < instances[j].seq)
      => DrawnBefore(draws, i, j)

\* C2: after every prepare(), however many appends and prepares came
\* before, two instances of the same class stand in the order in which
\* they were appended, and a render() of the prepared batch draws them in
\* that order.
C2_StableSort ==
  [][(prepare => C2_Ordered') /\ ((render /\ Prepared) => C2_DrawnOrdered')]_vars

\* A prepared and rendered batch in which the sort moved a face in front
\* of two non-faces that were appended before it.
C2_Witness ==
  /\ Prepared
  /\ Len(draws) = 2 /\ draws[2].last = Len(instances)
  /\ \E f, i, j \in DOMAIN instances :
       /\ f < i /\ i < j
       /\ IsFace(instances[f]) /\ ~IsFace(instances[i]) /\ ~IsFace(instances[j])
       /\ instances[i].seq < instances[f].seq

C3_Post ==
  LET split == Cardinality(Faces(instances)) IN
  /\ \A i \in Faces(instances) :
       \E k \in Calls(draws, "depth_write") : k \in Covering(draws, i - 1)
  /\ \A i \in NonFaces(instances) :
       \E k \in Calls(draws, "lines") : k \in Covering(draws, i - 1)
  /\ \A k \in Calls(draws, "depth_write") :
       draws[k].first = 0 /\ draws[k].last = split
  /\ \A k \in Calls(draws, "lines") :
       draws[k].first = split /\ draws[k].last = Len(instances)
  /\ \A k1 \in Calls(draws, "depth_write"), k2 \in Calls(draws, "lines") :
       k1 < k2

\* C3: when render() follows prepare() with no append in between, every
\* face is in the range of the depth-writing draw, every other instance in
\* the range of the line/blend draw, the split index is the number of
\* faces, and the depth-writing draw is issued first.
C3_FacesDrawnFirst == [][(render /\ Prepared) => C3_Post']_vars

\* A prepared and rendered batch with two faces, one of tag 31 appended
\* after a non-face, and the depth-writing draw over exactly the two.
C3_Witness ==
  /\ Prepared
  /\ Cardinality(Faces(instances)) = 2
  /\ Len(draws) = 2 /\ draws[1].last = 2 /\ draws[2].last = Len(instances)
  /\ \E f \in Faces(instances), n \in NonFaces(instances) :
       instances[f].tag = 31 /\ instances[n].seq < instances[f].seq

\* The closed set of primitive-type tags: rectangle, circle/oval, line,
\* extended marker 10 + marker_index, lit and unlit triangle.
ValidTag(t) == t \in {0, 1, 2, 30, 31} \/ t >= 10

\* C5: every Instance Record of the accumulator has params[0] in the
\* closed tag set, whatever the draw_* operations were called with.
C5_ClosedTagSet ==
  \A i \in DOMAIN instances : ValidTag(instances[i].tag)

C7_CapacityNeverShrinks ==
  [][/\ instance_buffer' >= instance_buffer
     /\ capacity' >= capacity
     /\ (prepare /\ BatchBytes(instances) <= instance_buffer)
          => (instance_buffer' = instance_buffer /\ capacity' = capacity)]_vars

\* A batch smaller than a buffer that was grown before has been prepared.
C7_Witness ==
  /\ Prepared
  /\ instances # <<>>
  /\ instance_buffer > InitialCapacity * InstanceSize
  /\ BatchBytes(instances) < instance_buffer

(***************************************************************************)
(* Properties of the capture pipeline (specification CaptureSpec).         *)
(***************************************************************************)
\* C4: a capture() that follows another with no renderer operation called
\* in between returns the same bytes as the one before it.
C4_CaptureIdempotent ==
  [][(CaptureReadback /\ ~touched /\ returned # "none")
       => returned' = returned]_vars

\* C9: capture() returns exactly width*height*4 bytes; byte b of output
\* row r is byte r*padded_row + b of the mapped staging buffer, which is
\* byte b of row r of the texture, so that rows come in increasing order
\* and no byte of a row's padding tail is returned.
C9_TightRows ==
  [][CaptureReadback =>
       LET w == ToNat(width)
           h == ToNat(height)
       IN /\ Len(returned') = w * h * 4
          /\ \A r \in 0..(h - 1), b \in 0..(w * 4 - 1) :
               /\ returned'[r * w * 4 + b + 1]
                    = staging[r * ToNat(padded_row) + b + 1]
               /\ returned'[r * w * 4 + b + 1]
                    = TexelByte(texture, b \div 4, r, b % 4)]_vars

\* capture() has returned a frame of at least 2 x 2 pixels with primitives
\* in it, whose last byte is the last texel byte of the texture.
C9_Witness ==
  /\ returned # "none"
  /\ ToNat(width) >= 2 /\ ToNat(height) >= 2
  /\ texture.prims # <<>>
  /\ returned[Len(returned)]
       = TexelByte(texture, ToNat(width) - 1, ToNat(height) - 1, 3)

(***************************************************************************)
(* Properties of the buffer sizes (specification SizeSpec).                *)
(***************************************************************************)
\* C8: for every u32 width, padded_bytes_per_row(width) is a multiple of
\* the alignment constant and is at least width*4.
C8_PaddedRowAligned ==
  pc # "new" =>
    /\ padded_row # Panicked
    /\ U32Rem(padded_row, ToU32(COPY_BYTES_PER_ROW_ALIGNMENT)) = 0
    /\ ~U32Less(U32Div(padded_row, ToU32(4)), width)

\* C10: for every width and height (the padded row size being right),
\* the staging buffer is created with padded_bytes_per_row(width) * height
\* bytes.
C10_StagingHoldsRows ==
  (pc # "new" /\ ~padded_bytes_per_row(width).ovf) =>
    /\ staging_bytes # Panicked
    /\ \/ height = ToU32(0) /\ staging_bytes = ToU32(0)
       \/ /\ height # ToU32(0)
          /\ U32Div(staging_bytes, height) = padded_row
          /\ U32Rem(staging_bytes, height) = 0

(***************************************************************************)
(* Properties of PlotCapture (specification PlotSpec).                     *)
(***************************************************************************)
RECURSIVE FrameItems(_)
\* The instance data a frame's draw calls read, in draw order.
FrameItems(prims) ==
  IF prims = <<>> THEN <<>>
  ELSE Head(prims).items \o FrameItems(Tail(prims))

InCapture == pc \in {"prepared", "encoded", "submitted", "polling", "recv"}

\* C11: render_and_capture() clears the primitive accumulator, clears the
\* text queue, runs the translator, then captures: when its capture()
\* starts the accumulators hold exactly what the translator emitted for the
\* current chart state, whatever they held before; the batch prepared and
\* the frame rendered from it consist of exactly those instances (faces
\* first) and texts, so they depend on the chart state alone and two calls
\* on an unchanged chart capture the same batch.
C11_CapturesTranslation ==
  rac_pc = "translated" =>
    /\ pc = "idle" =>
         /\ instances = TranslatedPrims(chart)
         /\ queued_texts = TranslatedTexts(chart)
    /\ InCapture =>
         /\ instances = SortFacesFirst(TranslatedPrims(chart))
         /\ uploaded = instances
         /\ brush = Sections(TranslatedTexts(chart))
    /\ pc = "recv" =>
         /\ texture.cleared
         /\ FrameItems(texture.prims) = SortFacesFirst(TranslatedPrims(chart))
         /\ texture.texts = Sections(TranslatedTexts(chart))

\* A second frame, of a chart with a title and no grid, has been rendered
\* by render_and_capture() after another caller drew into the accumulator.
C11_Witness ==
  /\ rac_pc = "translated"
  /\ pc = "recv"
  /\ returned # "none"
  /\ drawn > 0
  /\ chart.title = "t"
  /\ ~chart.show_grid
  /\ texture.texts # <<>>

(***************************************************************************)
(* Properties of capture() as a sequence of steps (CaptureSpec).           *)
(***************************************************************************)
\* The order in which the caller passes through capture().
CaptureOrder ==
  {<<"idle", "prepared">>, <<"prepared", "encoded">>,
   <<"encoded", "submitted">>, <<"submitted", "polling">>,
   <<"polling", "recv">>, <<"recv", "idle">>, <<"recv", "panicked">>}

\* The staging buffer holds, row by row at the padded stride, the texels
\* of the frame rendered from the current draw calls, batch and sections.
StagingHoldsFrame ==
  \A r \in 0..(ToNat(height) - 1), b \in 0..(ToNat(width) * 4 - 1) :
    staging[r * ToNat(padded_row) + b + 1]
      = TexelByte(Frame(draws, uploaded, brush), b \div 4, r, b % 4)

\* C12: capture() goes through prepare, render pass (clear, primitives,
\* text), copy, submit, map request, blocking wait, readback and unmap in
\* that order: the device writes the texture and the staging buffer only
\* between submit and the end of the wait, and the readback (hence the
\* return) happens only once the copy is done and the map callback has
\* signalled success, on a staging buffer that holds the complete frame
\* of this capture.
C12_StepOrder ==
  [][/\ (pc' # pc) => (<<pc, pc'>> \in CaptureOrder)
     /\ (staging' # staging \/ texture' # texture)
          => pc \in {"submitted", "polling"}
     /\ (CaptureReadback \/ returned' # returned) =>
          /\ pc = "recv"
          /\ map_state = "mapped"
          /\ gpu_work = <<>>
          /\ texture = Frame(draws, uploaded, brush)
          /\ StagingHoldsFrame
          /\ map_state' = "unmapped"]_vars

\* A second capture() waits in rx.recv() with the buffer mapped, its frame
\* holding primitives and text.
C12_Witness ==
  /\ pc = "recv"
  /\ map_state = "mapped"
  /\ returned # "none"
  /\ texture.prims # <<>>
  /\ texture.texts # <<>>

\* The map operations on the staging buffer that are in flight: a request
\* the device has not answered, a result the caller has not received, or
\* a mapping the caller has not released.
MapsInFlight ==
  (IF map_state = "pending" THEN 1 ELSE 0)
    + Len(channel)
    + (IF map_state = "mapped" /\ channel = <<>> THEN 1 ELSE 0)

C13_Inv ==
  /\ MapsInFlight <= 1
  /\ map_state # "unmapped" => pc \in {"polling", "recv"}
  /\ pc = "idle" => (map_state = "unmapped" /\ channel = <<>>)

\* C13: at most one map operation on the staging buffer is pending or
\* mapped at any time; the buffer is unmapped whenever capture() is not
\* running (so whenever it has returned), and every capture's submit (the
\* copy into the buffer) and map request find it unmapped.
C13_SingleMapInFlight ==
  /\ []C13_Inv
  /\ [][(CaptureSubmit \/ CaptureMapAsync) => map_state = "unmapped"]_vars

\* A second capture() has its map request pending.
C13_Witness ==
  /\ returned # "none"
  /\ pc = "polling"
  /\ map_state = "pending"

FrameBytes == ToNat(width) * ToNat(height) * 4

\* C14: capture() returns the complete frame of width*height*4 bytes or
\* panics without returning a buffer: a buffer is returned only after the
\* callback reported success, and it is complete; when the callback
\* reports an error or the channel is closed without a result, the call
\* panics, returns nothing, and nothing is returned afterwards.
C14_AllOrNothing ==
  /\ [](returned # "none" => Len(returned) = FrameBytes)
  /\ [][/\ (returned' # returned) =>
             (pc = "recv" /\ Head(channel) = "Ok" /\ pc' = "idle")
        /\ (pc = "recv" /\ Head(channel) \in {"Err", "Closed"}) =>
             (pc' = "panicked" /\ returned' = returned)
        /\ (pc = "panicked") => (pc' = "panicked" /\ returned' = returned)]_vars

\* A capture() panicked on a map error after an earlier one had returned a
\* frame.
C14_Witness ==
  /\ pc = "panicked"
  /\ returned # "none"
  /\ Len(returned) = FrameBytes

(***************************************************************************)
(* Termination of capture() (specification FairCaptureSpec).               *)
(***************************************************************************)
\* The caller blocked in capture() leaves the wait only when the device
\* answers the map request (or drops it); the command buffer is submitted
\* once per call and the buffer is not unmapped while the call waits.
C15_NoAbandon ==
  [][/\ (pc = "polling" /\ pc' # pc) =>
          (pc' = "recv" /\ (DeviceMapCallback \/ DeviceDropCallback))
     /\ (pc = "polling" /\ pc' = pc) => (map_state' = map_state)
     /\ (pc \in {"polling", "recv"}) => (Len(gpu_work') <= Len(gpu_work))]_vars

CallbackDropped == channel # <<>> /\ Head(channel) = "Closed"

\* C15 as stated: under the fairness assumption (the device executes the
\* submitted work and fires the map callback, rather than dropping it),
\* every capture() call eventually returns.
C15_AlwaysReturns == (<>CallbackDropped) \/ (InCapture ~> (pc = "idle"))

\* C15, amended: under the fairness assumption every capture() call
\* eventually returns or, when the map fails, panics; there is no timeout,
\* cancellation or retry: the blocked caller goes on only when the device
\* signals.
C15_ReturnsOrPanics ==
  /\ InCapture ~> (pc \in {"idle", "panicked"})
  /\ C15_NoAbandon

\* A second capture() is blocked in the wait while the device has not yet
\* executed the submitted work.
C15_Witness ==
  /\ returned # "none"
  /\ pc = "polling"
  /\ gpu_work # <<>>

(***************************************************************************)
(* The accumulator across frames (specification FrameSpec).                *)
(***************************************************************************)
Range(s) == {s[k] : k \in DOMAIN s}

\* s and t hold the same records, each once (records differ by payload).
SameRecords(s, t) == Len(s) = Len(t) /\ Range(s) = Range(t)

\* C16: no step of prepare(), render() or capture() removes an instance
\* from the accumulator: only clear() does.  Instances appended after a
\* captured frame without a clear() join the earlier ones, and the next
\* capture takes the whole batch as it is, rendering both frames'
\* instances without an error.
C16_KeptUntilClear ==
  [][/\ ~clear => (Len(instances') >= Len(instances)
                    /\ Range(instances) \subseteq Range(instances'))
     /\ (prepare \/ render \/ ~Idle) => SameRecords(instances, instances')
     /\ CaptureReadback =>
          (texture.cleared
             /\ SameRecords(FrameItems(texture.prims), instances))]_vars

\* A frame with instances in it was captured, more instances were appended
\* without a clear(), and the next capture has rendered a frame holding the
\* earlier instances and the later ones.
C16_Witness ==
  /\ pc = "recv"
  /\ returned # "none"
  /\ LET earlier == FrameItems(returned[1][1].prims)
         later   == FrameItems(texture.prims)
     IN /\ earlier # <<>>
        /\ Len(later) > Len(earlier)
        /\ Range(earlier) \subseteq Range(later)
        /\ SameRecords(later, instances)

(***************************************************************************)
(* The append operations (specification Spec).                             *)
(***************************************************************************)
DrawStep ==
  \/ draw_rect
  \/ draw_circle
  \/ draw_oval
  \/ draw_marker
  \/ draw_line
  \/ draw_triangle_unlit
  \/ draw_triangle

\* The record a draw_* step left at the end of the accumulator.
Appended == instances'[Len(instances')]

C17_AlwaysPossible ==
  (Idle /\ drawn < MaxDraws) =>
    /\ ENABLED draw_rect
    /\ ENABLED draw_circle
    /\ ENABLED draw_oval
    /\ ENABLED draw_marker
    /\ ENABLED draw_line
    /\ ENABLED draw_triangle_unlit
    /\ ENABLED draw_triangle

C18_EmptyIsNoOp ==
  [][/\ (prepare /\ instances = <<>>) =>
          UNCHANGED <<instances, instance_buffer, capacity, uploaded, draws,
                      bound>>
     /\ (render /\ instances = <<>>) =>
          /\ draws' = <<>>
          /\ bound' = <<>>
          /\ UNCHANGED <<instances, instance_buffer, capacity, uploaded>>
     /\ (render /\ instances # <<>>) =>
          /\ draws' # <<>>
          /\ bound' = <<"bind_group", "vertex_buffer">>]_vars

\* The accumulator was cleared after a batch that made the buffer grow had
\* been uploaded, and the last render() recorded nothing.
C18_Witness ==
  /\ instances = <<>>
  /\ uploaded # <<>>
  /\ instance_buffer > InitialCapacity * InstanceSize
  /\ draws = <<>>
  /\ bound = <<>>
  /\ drawn = MaxDraws

(***************************************************************************)
(* Properties of compare.rs (specification CompareSpec).                   *)
(***************************************************************************)
\* Channel c (1..4) of pixel i (0-based) differs by this much.
ChannelDiff(i, c) ==
  AbsDiff(img_actual[4 * i + c], img_expected[4 * i + c])

PixelIndices == 0..(img_width * img_height - 1)

\* The pixels with a channel (alpha included) differing by more than 5.
ExceedingPixels ==
  {i \in PixelIndices : \E c \in 1..4 : ChannelDiff(i, c) > 5}

\* C19: compare_images counts a pixel exactly when one of its four
\* channels differs by more than 5 (5 itself is not counted, 6 is);
\* max_diff is the largest channel difference over all pixels (0 when
\* there is none); identical buffers give 0 and 0; diff_count is at most
\* width*height.
C19_CompareCounts ==
  compared # <<>> =>
    LET r == compared[1] IN
    /\ ~r.panicked
    /\ r.diff_count = Cardinality(ExceedingPixels)
    /\ r.diff_count <= img_width * img_height
    /\ \A i \in PixelIndices, c \in 1..4 : ChannelDiff(i, c) <= r.max_diff
    /\ \/ r.max_diff = 0 /\ \A i \in PixelIndices, c \in 1..4 : ChannelDiff(i, c) = 0
       \/ \E i \in PixelIndices, c \in 1..4 : ChannelDiff(i, c) = r.max_diff
    /\ img_actual = img_expected => (r.max_diff = 0 /\ r.diff_count = 0)

\* Two pixels were compared: one differs by exactly 5 in alpha alone, the
\* other by 6 in one channel, and one pixel was counted.
C19_Witness ==
  /\ compared # <<>>
  /\ img_width * img_height = 2
  /\ ChannelDiff(0, 4) = 5
  /\ \A c \in 1..3 : ChannelDiff(0, c) = 0
  /\ \E c \in 1..4 : ChannelDiff(1, c) = 6
  /\ compared[1].diff_count = 1
  /\ compared[1].max_diff = 6

\* The largest of the R, G and B differences of pixel i.
RgbDiff(i) ==
  CHOOSE d \in {ChannelDiff(i, c) : c \in 1..3} :
    \A c \in 1..3 : ChannelDiff(i, c) <= d

HeatmapPixels == 0..((Len(img_actual) \div 4) - 1)

\* C20: diff_pixels writes, for every pixel, green (0, 128, 0, 255) when
\* the largest of its R, G, B differences is at most 5, and otherwise red
\* (min(10 x that difference, 255), 0, 0, 255); alpha is 255 everywhere
\* and the output has four bytes per pixel.
C20_HeatmapColours ==
  heatmap # <<>> =>
    LET out == heatmap[1] IN
    /\ Len(out) = 4 * (Len(img_actual) \div 4)
    /\ \A i \in HeatmapPixels :
         LET px == SubSeq(out, 4 * i + 1, 4 * i + 4)
             d  == RgbDiff(i)
         IN /\ px[4] = 255
            /\ d <= 5 => px = <<0, 128, 0, 255>>
            /\ (d > 5 /\ 10 * d <= 255) => px = <<10 * d, 0, 0, 255>>
            /\ (d > 5 /\ 10 * d > 255) => px = <<255, 0, 0, 255>>

\* A heatmap of two pixels: the first differs only in alpha (by 6) and is
\* green, the second differs by 6 in a colour channel and is red 60.
C20_Witness ==
  /\ heatmap # <<>>
  /\ Len(img_actual) = 8
  /\ ChannelDiff(0, 4) = 6
  /\ RgbDiff(0) = 0
  /\ RgbDiff(1) = 6
  /\ heatmap[1] = <<0, 128, 0, 255, 60, 0, 0, 255>>

\* A heatmap whose reds are capped at 255 (10 x 255 and 10 x 250).
C20_WitnessCapped ==
  /\ heatmap # <<>>
  /\ Len(img_actual) = 8
  /\ RgbDiff(0) = 255
  /\ RgbDiff(1) = 250
  /\ heatmap[1] = <<255, 0, 0, 255, 255, 0, 0, 255>>

\* A heatmap with a pixel exactly on the threshold, which is green.
C20_WitnessThreshold ==
  /\ heatmap # <<>>
  /\ Len(img_actual) = 4
  /\ RgbDiff(0) = 5
  /\ heatmap[1] = <<0, 128, 0, 255>>

\* C21: diff_pixels returns a buffer of exactly actual.len() bytes for
\* every pair of input buffers.
C21_ReturnsActualLen ==
  heatmap # <<>> =>
    /\ heatmap[1] # Panicked
    /\ Len(heatmap[1]) = Len(img_actual)

\* What the code does: it panics when `expected` ends before the last
\* byte it reads, and otherwise returns four bytes per whole pixel.
C21_ReturnsWholePixels ==
  heatmap # <<>> =>
    IF Len(img_actual) >= 4 /\ Len(img_expected) < 4 * (Len(img_actual) \div 4) - 1
    THEN heatmap[1] = Panicked
    ELSE Len(heatmap[1]) = 4 * (Len(img_actual) \div 4)

\* Five bytes in, four bytes out, with `expected` as long as `actual`.
C21_ShortOutput ==
  /\ heatmap # <<>>
  /\ Len(img_actual) = 5
  /\ Len(img_expected) = 5
  /\ Len(heatmap[1]) = 4

\* The x limits of chart c hold x, and its y limits y, in data units.
XWithin(c, x) == c.x_min <= PadDivisor * x /\ PadDivisor * x <= c.x_max

YWithin(c, y) == c.y_min <= PadDivisor * y /\ PadDivisor * y <= c.y_max

\* Every plotted value of chart c lies within its limits: the x and y
\* values of every series, surface and area, the height of every bar and
\* its slot i .. i + 1, and the span and height of every histogram bin.
PointsWithinLimits(c) ==
  /\ \A k \in 1..Len(c.series) :
       /\ \A i \in 1..Len(c.series[k].x) : XWithin(c, c.series[k].x[i])
       /\ \A i \in 1..Len(c.series[k].y) : YWithin(c, c.series[k].y[i])
  /\ \A k \in 1..Len(c.surfaces) :
       /\ \A i \in 1..Len(c.surfaces[k].x) : XWithin(c, c.surfaces[k].x[i])
       /\ \A i \in 1..Len(c.surfaces[k].y) : YWithin(c, c.surfaces[k].y[i])
  /\ \A k \in 1..Len(c.areas) :
       /\ \A i \in 1..Len(c.areas[k].x) : XWithin(c, c.areas[k].x[i])
       /\ \A i \in 1..Len(c.areas[k].y) : YWithin(c, c.areas[k].y[i])
  /\ \A k \in 1..Len(c.bars) :
       \A i \in 1..Len(c.bars[k]) :
         /\ XWithin(c, i - 1) /\ XWithin(c, i)
         /\ YWithin(c, c.bars[k][i])
  /\ \A k \in 1..Len(c.histogram_bins) :
       /\ XWithin(c, c.histogram_bins[k].x_start)
       /\ XWithin(c, c.histogram_bins[k].x_end)
       /\ YWithin(c, c.histogram_bins[k].height)

\* C22: after auto_scale() on a PlotBackend that holds any plotted data,
\* every plotted data point, of every series, surface, bar, histogram bin
\* and area, lies within the resulting x and y limits.
C22_ScaleCoversData ==
  [][(auto_scale /\ DataCount(chart) > 0) => PointsWithinLimits(chart')]_vars

\* The same for a chart that holds series alone.
C22_ScaleCoversSeries ==
  [][(auto_scale /\ DataCount(chart) = Len(chart.series))
       => PointsWithinLimits(chart')]_vars

\* The same for a chart that holds series and surfaces, or bars with
\* heights of zero or more, or histogram bins.
C22_ScaleCoversOneKind ==
  [][(/\ auto_scale
      /\ chart.areas = <<>>
      /\ \/ chart.bars = <<>> /\ chart.histogram_bins = <<>>
         \/ /\ chart.series = <<>> /\ chart.surfaces = <<>>
            /\ chart.histogram_bins = <<>>
            /\ \A k \in 1..Len(chart.bars) :
                 \A i \in 1..Len(chart.bars[k]) : chart.bars[k][i] >= 0
         \/ chart.series = <<>> /\ chart.surfaces = <<>> /\ chart.bars = <<>>)
       => PointsWithinLimits(chart')]_vars

\* A series with x = -1 and a bar chart were scaled together: x_min is 0
\* less the padding, above the series' point.
C22_SeriesLeftOfBars ==
  /\ Len(chart.series) = 1
  /\ Len(chart.bars) = 1
  /\ chart.series[1].x = <<-1>>
  /\ chart.series[1].y = <<2>>
  /\ chart.bars[1] = <<2>>
  /\ chart = AutoScale(chart)
  /\ chart.x_min > PadDivisor * (-1)

\* C23: every name a test passes to run() is the name of a case returned by
\* test_cases::all(), so no test panics with 'Unknown test case'.
C23_EveryNameKnown ==
  \A t \in Tests : test_outcome[t] # "panicked"

\* The eight tests whose case exists find it.
C23_RegisteredNamesKnown ==
  \A t \in Tests \ {"test_pie_chart", "test_box_chart"} :
    test_outcome[t] # "panicked"

\* The whole suite has run: eight lookups succeeded and two panicked.
C23_SuiteRan ==
  /\ \A t \in Tests : test_outcome[t] # "pending"
  /\ test_outcome["test_pie_chart"] = "panicked"
  /\ test_outcome["test_box_chart"] = "panicked"
  /\ Cardinality({t \in Tests : test_outcome[t] = "found"}) = 8

\* The 0-based instance indices the draw calls ds cover.
DrawnIndices(ds) ==
  UNION {d.first..(d.last - 1) : d \in {ds[k] : k \in 1..Len(ds)}}

\* C24: whenever render() issues a draw, every instance index it draws is
\* below the count the last prepare() uploaded and lies inside the current
\* instance buffer, for every interleaving of draw_*, clear, prepare and
\* render.
C24_DrawsWithinUpload ==
  [][render =>
       \A i \in DrawnIndices(draws') :
         /\ i < Len(uploaded')
         /\ (i + 1) * InstanceSize <= instance_buffer']_vars

\* What holds instead: when the accumulator is what the last prepare() left
\* (no draw_* or clear since), render() draws exactly the uploaded records.
C24_DrawsUploadAfterPrepare ==
  [][(render /\ instances = uploaded) =>
       /\ DrawnIndices(draws') = 0..(Len(uploaded') - 1)
       /\ Len(uploaded') * InstanceSize <= instance_buffer']_vars

\* A render() has drawn more instances than were uploaded, the last of
\* them past the end of the instance buffer.
C24_DrawnPastBuffer ==
  /\ draws # <<>>
  /\ \E i \in DrawnIndices(draws) :
       /\ i >= Len(uploaded)
       /\ (i + 1) * InstanceSize > instance_buffer

\* The record a draw_* call has just appended.
LastAppended == instances'[Len(instances')]

\* C25: an instance appended through draw_rect, draw_circle, draw_oval,
\* draw_marker or draw_line is never classified as a face by prepare() or
\* render(), whatever the arguments.
C25_OnlyTrianglesAreFaces ==
  [][(draw_rect \/ draw_circle \/ draw_oval \/ draw_marker \/ draw_line)
       => ~IsFace(LastAppended)]_vars

\* What holds instead: draw_rect, draw_oval and draw_line, whose tags are
\* fixed, never append a face.
C25_FixedTagsAreNotFaces ==
  [][(draw_rect \/ draw_oval \/ draw_line) => ~IsFace(LastAppended)]_vars

\* A record of tag 30, which draw_marker(marker_type = 20) appends as
\* draw_triangle does, was appended after a rectangle, sorted to the front
\* by prepare() and drawn with the depth-writing pipeline.
C25_MarkerDrawnAsFace ==
  /\ Prepared
  /\ Len(instances) = 2
  /\ instances[1].tag = 30 /\ instances[1].seq = 2
  /\ instances[2].tag = 0
  /\ Len(draws) = 2
  /\ draws[1].pipeline = "depth_write"

\* The uniform block holds the renderer's view_proj and screen_size.
UniformsCurrent ==
  /\ uniform_buffer.view_proj = view_proj
  /\ uniform_buffer.screen_size = screen_size

\* C26: in every state in which render() can be called, the view-projection
\* matrix and screen size in the uniform block equal the renderer's
\* view_proj and screen_size fields, also directly after new().
C26_UniformsMatchFields == Idle => UniformsCurrent

\* What holds instead: each of the three setters leaves the uniform block
\* equal to the fields, and no other call changes either.
C26_UniformsMatchAfterSetter ==
  [][/\ (resize \/ set_view_projection \/ set_camera_pos) => UniformsCurrent'
     /\ UniformsCurrent => UniformsCurrent']_vars

\* A frame was rendered with the uniform block still as created: a zero
\* matrix and a zero screen size, while the fields hold IDENTITY and 1 x 1.
C26_RenderedWithZeroUniforms ==
  /\ draws # <<>>
  /\ view_proj = IdentityMat
  /\ screen_size = <<ToU32(1), ToU32(1)>>
  /\ uniform_buffer = ZeroUniforms

\* C27: once set_camera_pos(p) has written the camera position, resize()
\* and set_view_projection() leave the camera position in the uniform
\* block equal to p.  (A position other than zero in the block was written
\* by set_camera_pos.)
C27_CameraPosKept ==
  [][((resize \/ set_view_projection)
        /\ uniform_buffer.camera_pos # <<0, 0, 0>>)
       => uniform_buffer'.camera_pos = uniform_buffer.camera_pos]_vars

\* What holds instead: resize() and set_view_projection() zero the camera
\* position, and set_camera_pos keeps the other two parts.
C27_CameraPosZeroed ==
  [][/\ (resize \/ set_view_projection)
          => uniform_buffer'.camera_pos = <<0, 0, 0>>
     /\ set_camera_pos
          => /\ uniform_buffer'.view_proj = view_proj
             /\ uniform_buffer'.screen_size = screen_size]_vars

\* The camera position (1, 2, 3) is in the uniform block, to be zeroed by
\* the next resize().
C27_CameraPosWritten ==
  /\ uniform_buffer.camera_pos = <<1, 2, 3>>
  /\ UniformsCurrent

\* The number of calls of function fn among calls.
CallCount(calls, fn) ==
  Cardinality({k \in 1..Len(calls) : calls[k].fn = fn})

\* draw_series on series s of chart c neither panics nor appends more than
\* count - 1 lines and count markers.
SeriesWithinCount(c, s) ==
  LET r     == draw_series(s, Is3d(c))
      count == SeriesCount(s, Is3d(c))
  IN /\ ~r.panicked
     /\ CallCount(r.calls, "draw_line") <= (IF count > 0 THEN count - 1 ELSE 0)
     /\ CallCount(r.calls, "draw_circle") <= count

\* C28: for every combination of series lengths, in 2D and in 3D,
\* draw_series inside render appends at most count - 1 lines and count
\* markers for count = min(len x, len y, and len z in 3D), and render
\* never panics.
C28_SeriesWithinCount ==
  [][plot_render =>
       /\ pc' # "panicked"
       /\ \A k \in 1..Len(chart.series) :
            SeriesWithinCount(chart, chart.series[k])]_vars

\* What holds instead: the same for a chart in 2D mode, and for a chart in
\* 3D mode in which every series with a line has z data.
C28_SeriesWithinCountWithZ ==
  [][(/\ plot_render
      /\ Is3d(chart) =>
           \A k \in 1..Len(chart.series) :
             chart.series[k].line_width > 0 => chart.series[k].z # <<>>)
       => /\ pc' # "panicked"
          /\ \A k \in 1..Len(chart.series) :
               SeriesWithinCount(chart, chart.series[k])]_vars

\* render panicked on a chart in 3D mode with a 2D line series in it.
C28_RenderPanicked ==
  /\ pc = "panicked"
  /\ Len(chart.series) = 2
  /\ chart.series[1].z = <<>> /\ Len(chart.series[1].x) = 2
  /\ chart.series[2].z # <<>>

\* The pixels diff_pixels coloured red, and those it coloured green.
RedPixels ==
  {i \in HeatmapPixels : heatmap[1][4 * i + 2] = 0 /\ heatmap[1][4 * i + 1] > 0}

GreenPixels ==
  {i \in HeatmapPixels : SubSeq(heatmap[1], 4 * i + 1, 4 * i + 3) = <<0, 128, 0>>}

BothRan == compared # <<>> /\ heatmap # <<>>

\* C29: for buffers of equal size width*height*4, the pixels compare_images
\* counts in diff_count are exactly those diff_pixels colours red, and the
\* uncounted pixels exactly those it colours green.
C29_SameClassification ==
  BothRan =>
    /\ RedPixels = ExceedingPixels
    /\ GreenPixels = PixelIndices \ ExceedingPixels
    /\ compared[1].diff_count = Cardinality(RedPixels)

\* What holds instead: the two agree on every image pair whose alpha
\* channels differ by at most 5 everywhere, and every red pixel is counted.
C29_SameClassificationOfColour ==
  BothRan =>
    /\ RedPixels \subseteq ExceedingPixels
    /\ (\A i \in PixelIndices : ChannelDiff(i, 4) <= 5) =>
         /\ RedPixels = ExceedingPixels
         /\ GreenPixels = PixelIndices \ ExceedingPixels
         /\ compared[1].diff_count = Cardinality(RedPixels)

\* One pixel that differs by 6 in alpha alone: counted, and green.
C29_CountedAndGreen ==
  /\ BothRan
  /\ img_width * img_height = 1
  /\ ChannelDiff(0, 4) = 6
  /\ RgbDiff(0) = 0
  /\ compared[1].diff_count = 1
  /\ heatmap[1] = <<0, 128, 0, 255>>

\* The texts of the sections the brush was last handed, in order.
BrushTexts(b) == [k \in 1..Len(b) |-> b[k].text]

\* C30: prepare() hands the brush every text queued since the last
\* prepare() or clear(), in queue order, and leaves the queue empty (an
\* empty queue hands the brush an empty section list); between two of
\* them the queue only grows, by the text of each draw_text at its end, so
\* each draw_text is resolved by exactly the next prepare().
C30_PrepareResolvesQueue ==
  [][/\ text_prepare =>
          /\ BrushTexts(brush') = queued_texts
          /\ queued_texts' = <<>>
          /\ queued_texts = <<>> => brush' = <<>>
     /\ draw_label =>
          /\ Len(queued_texts') = Len(queued_texts) + 1
          /\ SubSeq(queued_texts', 1, Len(queued_texts)) = queued_texts
          /\ brush' = brush
     /\ text_clear => (queued_texts' = <<>> /\ brush' = brush)]_vars

\* The brush holds "a" then "b" from one prepare(), and a text queued
\* after it waits for the next.
C30_Witness ==
  /\ BrushTexts(brush) = <<"a", "b">>
  /\ queued_texts = <<"b">>
=========================================================================
